---- MODULE Spec2Model ----
(***************************************************************************)
(* The AV/C transaction and command-protocol layer of the BeBoB protocol   *)
(* crate: BebobAvc (control/status with the status-code quirk) and the     *)
(* capability traits built on it (media clock frequency, sampling clock    *)
(* source, level / LR balance / mute, selector).                           *)
(*                                                                         *)
(* A caller invokes one operation at a time.  An operation that reaches    *)
(* the bus leaves a command frame in flight (pc = "wait"); the step that   *)
(* returns from FwFcp::avc_transaction carries the device's answer and     *)
(* runs the rest of the operation up to its return or its next command.    *)
(*                                                                         *)
(* Spec is that serial view.  SpecConcurrent is the view of two callers    *)
(* that do not wait for each other, on one BebobAvc or on two, each with   *)
(* its own FwFcp and device.                                               *)
(***************************************************************************)
EXTENDS Integers, Sequences, FiniteSets, TLC

VARIABLES
    impl,       \* the implementer type whose trait operations are exercised
    pc,         \* "idle": no call in progress; "wait": blocked in transaction()
    cur,        \* the operation in progress (or the last one): [fn, idx, val, op]
    sent,       \* command frames handed to the transport by that operation
    acks,       \* per sent frame, what the transaction returned
    res,        \* what that operation returned: [ok, err, ret, op]
    lastWrite,  \* the last write that returned Ok, with no control command since
    dev,        \* the device behind the bus node
    thr,        \* concurrent callers: per caller, its instance, position, call and result
    avcs,       \* concurrent callers: per BebobAvc, its FwFcp and the node given to bind
    bus,        \* concurrent callers: per FwFcp, its node and the frames in flight
    devs,       \* concurrent callers: per bus node, the device
    sess,       \* one instance over a session: its caller, the call before, the device
    channel,    \* BebobRuntime: the events queued in the channel (tx, rx)
    main,       \* BebobRuntime: where the main thread is (run loop, drop)
    dispatchers, \* BebobRuntime: the Vec of dispatchers
    disp,       \* BebobRuntime: per dispatcher, its event loop and its thread
    timer,      \* BebobRuntime: the Option of the interval timer dispatcher
    timer_threads, \* BebobRuntime: the interval timer dispatcher threads alive
    unit_locked, \* BebobRuntime: the lock state of the sound unit
    lockers,    \* BebobRuntime: the threads spawned per lock notification, in order
    lock_log,   \* BebobRuntime: the StreamLock values the run loop handled, in order
    last,       \* BebobRuntime: what the run loop did with the last event it received
    meter,      \* BebobRuntime: the last 'metering' event whose value could be read
    ctls,       \* control handlers: the fields and constants of the controls
    call,       \* control handlers: the handler in progress (or the last one)
    lock,       \* control handlers: who holds the lock of the sound unit
    wire,       \* control handlers: what that handler did to the unit and the bus
    hw,         \* control handlers: the device
    elem_value  \* control handlers: the ElemValue a read handler fills

\* The state of one caller on one BebobAvc, and the state of concurrent callers.
serialVars == <<impl, pc, cur, sent, acks, res, lastWrite, dev>>

concVars == <<thr, avcs, bus, devs>>

\* The state of one instance followed over a session, and of a BebobRuntime.
sessVars == <<sess>>

rtVars == <<channel, main, dispatchers, disp, timer, timer_threads, unit_locked, lockers,
            lock_log, last, meter>>

\* What a step of the serial caller leaves alone.
\* The state of the control handlers of the runtimes.
ctlVars == <<ctls, call, lock, wire, hw, elem_value>>

nonSerialVars == <<concVars, sessVars, rtVars, ctlVars>>

vars == <<impl, pc, cur, sent, acks, res, lastWrite, dev, thr, avcs, bus, devs, sess,
          channel, main, dispatchers, disp, timer, timer_threads, unit_locked, lockers,
          lock_log, last, meter, ctls, call, lock, wire, hw, elem_value>>

(***************************************************************************)
(* Bounds of the exploration.                                              *)
(***************************************************************************)
\* Callers try the indices 0..MaxIdx; every table is shorter than that.
MaxIdx == 3

Indices == 0..MaxIdx

(***************************************************************************)
(* Small helpers.                                                          *)
(***************************************************************************)
\* slice.iter().nth(idx): the entry, when there is one (idx is zero-based).
HasNth(list, idx) == idx < Len(list)

Nth(list, idx) == list[idx + 1]

\* slice.iter().position(pred): the zero-based index of the first match.
Positions(list, v) == {i \in 0..(Len(list) - 1) : list[i + 1] = v}

HasPosition(list, v) == Positions(list, v) # {}

Position(list, v) == CHOOSE i \in Positions(list, v) : \A j \in Positions(list, v) : i <= j

(***************************************************************************)
(* glib::Error values and the AV/C error taxonomy.                         *)
(***************************************************************************)
NoErr == [domain |-> "none", code |-> "none"]

NoAvcErr == [kind |-> "none", cause |-> "none"]

FileErrorInval == [domain |-> "FileError", code |-> "Inval"]

FileErrorIo == [domain |-> "FileError", code |-> "Io"]

FileErrorNxio == [domain |-> "FileError", code |-> "Nxio"]

\* The domain and code of a glib::Error, leaving its message aside.
ErrorKind(e) == [domain |-> e.domain, code |-> e.code]

\* What FwFcp::avc_transaction can fail with.
TransportErrors ==
    {[domain |-> "FwFcpError", code |-> "Timeout"],
     [domain |-> "FwNodeError", code |-> "Disconnected"]}

CmdBuild(cause) == [kind |-> "CmdBuild", cause |-> cause]

CommunicationFailure(cause) == [kind |-> "CommunicationFailure", cause |-> cause]

RespParse(cause) == [kind |-> "RespParse", cause |-> cause]

(***************************************************************************)
(* AV/C general: addresses, opcodes, response codes, frames.               *)
(***************************************************************************)
AvcAddrs == {"Unit", "AudioSubunit0"}

AUDIO_SUBUNIT_0_ADDR == "AudioSubunit0"

Opcodes ==
    {"InputPlugSignalFormat", "OutputPlugSignalFormat", "SignalSource",
     "AudioFunctionBlock", "ExtendedStreamFormat", "VendorDependent"}

\* The low nibble of the first byte of a response frame, as the device sets it.
RespNibbles == {0, 1, 8, 9, 10, 11, 12, 15}

\* AvcRespCode::from(u8).
AvcRespCodeFrom(n) ==
    CASE n = 8  -> [t |-> "NotImplemented", v |-> 0]
      [] n = 9  -> [t |-> "Accepted", v |-> 0]
      [] n = 10 -> [t |-> "Rejected", v |-> 0]
      [] n = 11 -> [t |-> "InTransition", v |-> 0]
      [] n = 12 -> [t |-> "ImplementedStable", v |-> 0]
      [] n = 13 -> [t |-> "Changed", v |-> 0]
      [] n = 15 -> [t |-> "Interim", v |-> 0]
      [] OTHER  -> [t |-> "Reserved", v |-> n]

Accepted == [t |-> "Accepted", v |-> 0]

ImplementedStable == [t |-> "ImplementedStable", v |-> 0]

Reserved(n) == [t |-> "Reserved", v |-> n]

\* Ta1394Avc::compose_command_frame.
ComposeCommandFrame(ctype, addr, opcode, operands) ==
    [ctype |-> ctype, addr |-> addr, opcode |-> opcode, operands |-> operands]

\* What transaction() returns: an error of the transport, or a response frame.
TrError(cause) == [kind |-> "error", cause |-> cause]

TrFrame(nibble, addr, opcode, operands, wellformed) ==
    [kind |-> "frame", code |-> nibble, addr |-> addr, opcode |-> opcode,
     operands |-> operands, wellformed |-> wellformed]

\* Ta1394Avc::detect_response_operands: the frame must answer this address and
\* this opcode; the response code is the low nibble of its first byte.
DetectResponseOperands(frame, addr, opcode) ==
    IF frame.addr # addr \/ frame.opcode # opcode
    THEN [ok |-> FALSE, err |-> "UnexpectedAddrOrOpcode"]
    ELSE [ok |-> TRUE, rcode |-> AvcRespCodeFrom(frame.code), operands |-> frame.operands,
          wellformed |-> frame.wellformed]

(***************************************************************************)
(* Operand structures and their wire encodings.                            *)
(***************************************************************************)
\* The sampling frequency codes (SFC) of an AMDTP FDF, in code order.
SfcFreqs == <<32000, 44100, 48000, 88200, 96000, 176400, 192000>>

\* AmdtpFdf::new(AmdtpEventType::Am824, false, freq).into(): three bytes, the
\* first carrying the SFC of the frequency (7 when the frequency has none).
AmdtpFdfBytes(freq) ==
    <<IF HasPosition(SfcFreqs, freq) THEN Position(SfcFreqs, freq) ELSE 7, 255, 255>>

\* The frequency an FDF names, as the device decodes it (0: none).
FreqOfFdf(fdf) == IF fdf[1] < Len(SfcFreqs) THEN SfcFreqs[fdf[1] + 1] ELSE 0

\* i16::to_be_bytes and i16::from_be_bytes.
I16ToBytes(v) == LET u == (v + 65536) % 65536 IN <<u \div 256, u % 256>>

I16FromBytes(b) == LET u == b[1] * 256 + b[2] IN IF u >= 32768 THEN u - 65536 ELSE u

\* The wire form of a mute flag: 0x70 is on, 0x60 is off.
MuteToBytes(m) == <<IF m THEN 112 ELSE 96>>

MuteFromBytes(b) == b[1] = 112

\* FeatureCtl's control value on the wire: the control selector and its bytes.
EncodeCtl(ctl) ==
    CASE ctl.variant = "Volume"    -> [variant |-> "Volume", bytes |-> I16ToBytes(ctl.data)]
      [] ctl.variant = "LrBalance" -> [variant |-> "LrBalance", bytes |-> I16ToBytes(ctl.data)]
      [] ctl.variant = "Mute"      -> [variant |-> "Mute", bytes |-> MuteToBytes(ctl.data)]

DecodeCtl(w) ==
    CASE w.variant = "Volume"    -> [variant |-> "Volume", data |-> I16FromBytes(w.bytes)]
      [] w.variant = "LrBalance" -> [variant |-> "LrBalance", data |-> I16FromBytes(w.bytes)]
      [] w.variant = "Mute"      -> [variant |-> "Mute", data |-> MuteFromBytes(w.bytes)]

\* The operand bytes of an operand structure's body.
EncodeBody(body) ==
    IF body.shape = "AudioFeature" THEN [body EXCEPT !.ctl = EncodeCtl(body.ctl)] ELSE body

\* The body the operand bytes of a response stand for.
DecodeBody(operands) ==
    IF operands.shape = "AudioFeature"
    THEN [operands EXCEPT !.ctl = DecodeCtl(operands.ctl)]
    ELSE operands

\* Whether a response's operands answer the operand structure that asked: the
\* same structure, the same function block, channel and control.
AnswersBody(body, operands) ==
    /\ operands.shape = body.shape
    /\ body.shape = "AudioFeature" =>
        /\ operands.func_block_id = body.func_block_id
        /\ operands.audio_ch = body.audio_ch
        /\ operands.ctl.variant = body.ctl.variant
    /\ body.shape = "AudioSelector" => operands.func_block_id = body.func_block_id

\* AvcControl::build_operands / AvcStatus::build_operands of an operand structure.
BuildOperands(op) ==
    IF op.buildable
    THEN [ok |-> TRUE, operands |-> EncodeBody(op.body)]
    ELSE [ok |-> FALSE, err |-> "InvalidOperands"]

\* AvcControl::parse_operands / AvcStatus::parse_operands: the operand structure
\* takes the values of the response, or rejects its bytes.
ParseOperands(op, d) ==
    IF d.wellformed /\ AnswersBody(op.body, d.operands)
    THEN [ok |-> TRUE, op |-> [op EXCEPT !.body = DecodeBody(d.operands)]]
    ELSE [ok |-> FALSE, err |-> "UnexpectedOperands"]

\* InputPlugSignalFormat(PlugSignalFormat{plug_id, fmt, fdf}) and its output twin.
PlugSignalFormatOp(opcode, plug_id, fdf) ==
    [opcode |-> opcode, buildable |-> TRUE,
     body |-> [shape |-> "PlugSignalFormat", plug_id |-> plug_id, fmt |-> "AMDTP", fdf |-> fdf]]

\* ExtendedStreamFormatSingle::new(&plug_addr): the format is not known yet.
ExtendedStreamFormatSingleNew(plug_addr) ==
    [opcode |-> "ExtendedStreamFormat", buildable |-> TRUE,
     body |-> [shape |-> "ExtendedStreamFormatSingle", plug_addr |-> plug_addr,
               stream_format |-> [kind |-> "Reserved", freq |-> 0]]]

\* SignalSource::new(&dst): the source starts as the first unit isoc plug.
SignalSourceNew(dst) ==
    [opcode |-> "SignalSource", buildable |-> TRUE,
     body |-> [shape |-> "SignalSource", src |-> "Unit.Isoc0", dst |-> dst]]

\* AudioFeature::new(func_block_id, ctl_attr, audio_ch, ctl).
AudioFeatureNew(func_block_id, ctl_attr, audio_ch, ctl) ==
    [opcode |-> "AudioFunctionBlock", buildable |-> TRUE,
     body |-> [shape |-> "AudioFeature", func_block_id |-> func_block_id,
               ctl_attr |-> ctl_attr, audio_ch |-> audio_ch, ctl |-> ctl]]

\* AudioSelector::new(func_block_id, ctl_attr, input_plug_id).
AudioSelectorNew(func_block_id, ctl_attr, input_plug_id) ==
    [opcode |-> "AudioFunctionBlock", buildable |-> TRUE,
     body |-> [shape |-> "AudioSelector", func_block_id |-> func_block_id,
               ctl_attr |-> ctl_attr, input_plug_id |-> input_plug_id]]

FeatureVolume(v) == [variant |-> "Volume", data |-> v]

FeatureLrBalance(v) == [variant |-> "LrBalance", data |-> v]

FeatureMute(m) == [variant |-> "Mute", data |-> m]

(***************************************************************************)
(* BebobAvc: control with the status-code quirk, status, error mapping.    *)
(***************************************************************************)
\* Faulty variant of CommandFrame: the frame is composed and sent without
\* looking at the result of build_operands.
CommandFrameUnchecked(ctype, addr, op) ==
    [ok |-> TRUE, frame |-> ComposeCommandFrame(ctype, addr, op.opcode, EncodeBody(op.body))]

\* The command frame of a control (or status) call, or the build failure.
CommandFrame(ctype, addr, op) ==
    LET b == BuildOperands(op) IN
    IF b.ok
    THEN [ok |-> TRUE, frame |-> ComposeCommandFrame(ctype, addr, op.opcode, b.operands)]
    ELSE [ok |-> FALSE, err |-> CmdBuild(b.err)]

\* Faulty variant of Expected: the quirk is applied to every opcode.
ExpectedQuirkEverywhere(opcode, rcode) == rcode = Accepted \/ rcode = Reserved(0)

\* The status codes control takes for success, per opcode.
Expected(opcode, rcode) ==
    IF opcode \in {"InputPlugSignalFormat", "OutputPlugSignalFormat", "SignalSource"}
    THEN rcode = Accepted \/ rcode = Reserved(0)
    ELSE rcode = Accepted

\* Ta1394Avc::status takes ImplementedStable alone.
ExpectedStatus(opcode, rcode) == rcode = ImplementedStable

\* Faulty variant of AfterTransaction: the operand structure deserializes the
\* response before its addressing and its status code are looked at.
AfterTransactionParseFirst(addr, op, tr, expected) ==
    IF tr.kind = "error"
    THEN [ok |-> FALSE, err |-> CommunicationFailure(tr.cause), op |-> op]
    ELSE LET d == DetectResponseOperands(tr, addr, op.opcode)
             p == ParseOperands(op, [operands |-> tr.operands, wellformed |-> tr.wellformed])
             parsed == IF p.ok THEN p.op ELSE op
         IN
         IF ~d.ok THEN [ok |-> FALSE, err |-> RespParse(d.err), op |-> parsed]
         ELSE IF ~expected
              THEN [ok |-> FALSE, err |-> RespParse("UnexpectedStatus"), op |-> parsed]
         ELSE IF p.ok THEN [ok |-> TRUE, err |-> NoErr, op |-> p.op]
              ELSE [ok |-> FALSE, err |-> RespParse(p.err), op |-> op]

\* The rest of control/status once transaction() has returned `tr`; `expected`
\* is the acceptance of the response code.
AfterTransaction(addr, op, tr, expected) ==
    IF tr.kind = "error"
    THEN [ok |-> FALSE, err |-> CommunicationFailure(tr.cause), op |-> op]
    ELSE LET d == DetectResponseOperands(tr, addr, op.opcode) IN
         IF ~d.ok THEN [ok |-> FALSE, err |-> RespParse(d.err), op |-> op]
         ELSE IF ~expected THEN [ok |-> FALSE, err |-> RespParse("UnexpectedStatus"), op |-> op]
         ELSE LET p == ParseOperands(op, d) IN
              IF p.ok THEN [ok |-> TRUE, err |-> NoErr, op |-> p.op]
              ELSE [ok |-> FALSE, err |-> RespParse(p.err), op |-> op]

\* Ta1394Avc::control of BebobAvc, from the return of transaction().
ControlAfterTransaction(addr, op, tr) ==
    AfterTransaction(addr, op, tr,
        tr.kind = "frame" /\ Expected(op.opcode, AvcRespCodeFrom(tr.code)))

\* Ta1394Avc::status (the trait's default), from the return of transaction().
StatusAfterTransaction(addr, op, tr) ==
    AfterTransaction(addr, op, tr,
        tr.kind = "frame" /\ ExpectedStatus(op.opcode, AvcRespCodeFrom(tr.code)))

\* Faulty variant of from_avc_err: a build failure reported as I/O error.
from_avc_err_build_as_io(err) ==
    CASE err.kind = "CmdBuild"             -> FileErrorIo
      [] err.kind = "CommunicationFailure" -> err.cause
      [] err.kind = "RespParse"            -> FileErrorIo

\* from_avc_err: the caller's glib::Error for each kind of failure.
from_avc_err(err) ==
    CASE err.kind = "CmdBuild"             -> FileErrorInval
      [] err.kind = "CommunicationFailure" -> err.cause
      [] err.kind = "RespParse"            -> FileErrorIo

\* .map_err(|err| from_avc_err(err)) in BebobAvc::control / BebobAvc::status: the
\* glib::Error the caller gets (avc keeps the Ta1394AvcError it was made from).
MapErr(r) ==
    IF r.ok
    THEN [ok |-> TRUE, err |-> NoErr, avc |-> NoAvcErr, op |-> r.op]
    ELSE [ok |-> FALSE, err |-> from_avc_err(r.err), avc |-> r.err, op |-> r.op]

(***************************************************************************)
(* The implementer types and their tables.                                 *)
(***************************************************************************)
\* "Raw" calls BebobAvc::control/status itself; each of the others is a type
\* whose operations of one capability trait are called ("LrBalance" and "Mute"
\* implement AvcLevelOperation too, for its ENTRIES), two of them with a table
\* that holds a value twice.
Impls == {"Raw", "Clk", "ClkRepeat", "Level", "LrBalance", "Mute", "Selector", "SelectorRepeat"}

FREQ_LIST(i) ==
    CASE i = "Clk"       -> <<32000, 44100, 48000>>
      [] i = "ClkRepeat" -> <<44100, 48000, 44100>>
      [] OTHER           -> <<>>

DST(i) == "Subunit.Music0.Dst1"

SRC_LIST(i) ==
    CASE i = "Clk"       -> <<"Subunit.Music0.Src1", "Unit.Ext4">>
      [] i = "ClkRepeat" -> <<"Unit.Ext4", "Subunit.Music0.Src1", "Unit.Ext4">>
      [] OTHER           -> <<>>

ENTRIES(i) ==
    CASE i = "Level"     -> <<<<1, "Each0">>, <<1, "Each1">>, <<2, "All">>>>
      [] i = "LrBalance" -> <<<<1, "Each0">>, <<2, "Each0">>>>
      [] i = "Mute"      -> <<<<2, "All">>, <<1, "Each1">>, <<2, "All">>>>
      [] OTHER           -> <<>>

FUNC_BLOCK_ID_LIST(i) ==
    CASE i = "Selector"       -> <<1, 2>>
      [] i = "SelectorRepeat" -> <<1>>
      [] OTHER                -> <<>>

INPUT_PLUG_ID_LIST(i) ==
    CASE i = "Selector"       -> <<0, 2, 5>>
      [] i = "SelectorRepeat" -> <<0, 2, 0>>
      [] OTHER                -> <<>>

LEVEL_MAX == 0

LEVEL_STEP == 256

BALANCE_STEP == 128

\* The 16-bit values callers write: the ends of the i16 range, values off the
\* step, values above LEVEL_MAX.
I16Vals == {-32768, -255, 32767}

(***************************************************************************)
(* The device: it stores what an accepted control command sets and reports *)
(* it to a status command.                                                 *)
(***************************************************************************)
FbIds == {1, 2}

AudioChs == {"Each0", "Each1", "All"}

FeatKeys == FbIds \X AudioChs \X {"Volume", "LrBalance", "Mute"}

FeatKey(operands) == <<operands.func_block_id, operands.audio_ch, operands.ctl.variant>>

DevInits ==
    {[freqIn |-> 48000, freqOut |-> 48000, src |-> "Unit.Ext4",
      feat |-> [k \in FeatKeys |-> IF k[3] = "Mute" THEN <<96>> ELSE <<0, 0>>],
      sel |-> [b \in FbIds |-> 0]],
     [freqIn |-> 96000, freqOut |-> 96000, src |-> "Unit.Isoc1",
      feat |-> [k \in FeatKeys |-> IF k[3] = "Mute" THEN <<112>> ELSE <<255, 0>>],
      sel |-> [b \in FbIds |-> 7]]}

\* The device after it has carried out control command f.
DeviceApply(d, f) ==
    CASE f.opcode = "InputPlugSignalFormat" /\ f.operands.shape = "PlugSignalFormat" ->
            [d EXCEPT !.freqIn = FreqOfFdf(f.operands.fdf)]
      [] f.opcode = "OutputPlugSignalFormat" /\ f.operands.shape = "PlugSignalFormat" ->
            [d EXCEPT !.freqOut = FreqOfFdf(f.operands.fdf)]
      [] f.opcode = "SignalSource" /\ f.operands.shape = "SignalSource" ->
            [d EXCEPT !.src = f.operands.src]
      [] f.opcode = "AudioFunctionBlock" /\ f.operands.shape = "AudioFeature" ->
            [d EXCEPT !.feat[FeatKey(f.operands)] = f.operands.ctl.bytes]
      [] f.opcode = "AudioFunctionBlock" /\ f.operands.shape = "AudioSelector" ->
            [d EXCEPT !.sel[f.operands.func_block_id] = f.operands.input_plug_id]
      [] OTHER -> d

\* The operands of the device's answer to status command f: the operands of the
\* command with the values the device holds.
DeviceReport(d, f) ==
    CASE f.operands.shape = "PlugSignalFormat" ->
            [f.operands EXCEPT !.fdf = AmdtpFdfBytes(IF f.opcode = "InputPlugSignalFormat"
                                                     THEN d.freqIn ELSE d.freqOut)]
      [] f.operands.shape = "ExtendedStreamFormatSingle" ->
            [f.operands EXCEPT !.stream_format = [kind |-> "BcoCompoundAm824", freq |-> d.freqOut]]
      [] f.operands.shape = "SignalSource" -> [f.operands EXCEPT !.src = d.src]
      [] f.operands.shape = "AudioFeature" ->
            [f.operands EXCEPT !.ctl = [variant |-> f.operands.ctl.variant,
                                        bytes |-> d.feat[FeatKey(f.operands)]]]
      [] f.operands.shape = "AudioSelector" ->
            [f.operands EXCEPT !.input_plug_id = d.sel[f.operands.func_block_id]]
      [] OTHER -> f.operands

\* The device carries out a control command it answers with Accepted, and one of
\* the three quirk opcodes also when it answers with the reserved code 0x00.
DeviceCarriesOut(f, n) ==
    /\ f.ctype = "Control"
    /\ \/ n = 9
       \/ n = 0 /\ f.opcode \in {"InputPlugSignalFormat", "OutputPlugSignalFormat", "SignalSource"}

DeviceAfter(d, f, n) == IF DeviceCarriesOut(f, n) THEN DeviceApply(d, f) ELSE d

\* The operands of the response with code n: the values the device holds, when
\* it answers a status command or does not carry out a control command;
\* otherwise the operands of the command.
DeviceAnswer(d, f, n) ==
    IF (f.ctype = "Status" /\ n = 12) \/ (f.ctype = "Control" /\ ~DeviceCarriesOut(f, n))
    THEN DeviceReport(d, f)
    ELSE f.operands

\* The control value of another control of the same function block and channel
\* than the one command f names.
OtherCtl(d, f) ==
    LET v == IF f.operands.ctl.variant = "Mute" THEN "Volume" ELSE "Mute" IN
    [variant |-> v, bytes |-> d.feat[<<f.operands.func_block_id, f.operands.audio_ch, v>>]]

OtherAddr(addr) == IF addr = "Unit" THEN "AudioSubunit0" ELSE "Unit"

\* The code of a response that the call will take: Accepted or ImplementedStable.
GoodNibble(f) == IF f.ctype = "Control" THEN 9 ELSE 12

\* Every way one transaction can end: the transport fails; the device answers
\* with some response code; the answer names another address or opcode; its
\* operand bytes are malformed; the plug's stream format is not a compound one;
\* the answer to a query of a feature control carries another control.
DeviceOutcomes(d, f) ==
    {[tr |-> TrError(c), dev |-> d] : c \in TransportErrors}
    \cup {[tr |-> TrFrame(n, f.addr, f.opcode, DeviceAnswer(d, f, n), TRUE),
           dev |-> DeviceAfter(d, f, n)] : n \in RespNibbles}
    \cup {[tr |-> TrFrame(GoodNibble(f), OtherAddr(f.addr), f.opcode, DeviceReport(d, f), TRUE),
           dev |-> d],
          [tr |-> TrFrame(GoodNibble(f), f.addr, "VendorDependentOther", DeviceReport(d, f), TRUE),
           dev |-> d],
          [tr |-> TrFrame(GoodNibble(f), f.addr, f.opcode, DeviceAnswer(d, f, GoodNibble(f)), FALSE),
           dev |-> DeviceAfter(d, f, GoodNibble(f))]}
    \cup (IF f.ctype = "Status" /\ f.operands.shape = "ExtendedStreamFormatSingle"
          THEN {[tr |-> TrFrame(12, f.addr, f.opcode,
                    [f.operands EXCEPT !.stream_format = [kind |-> "Am824", freq |-> d.freqOut]],
                    TRUE), dev |-> d]}
          ELSE {})
    \cup (IF f.ctype = "Status" /\ f.operands.shape = "AudioFeature"
          THEN {[tr |-> TrFrame(12, f.addr, f.opcode,
                    [f.operands EXCEPT !.ctl = OtherCtl(d, f)], TRUE), dev |-> d]}
          ELSE {})

(***************************************************************************)
(* Calls and returns.                                                      *)
(***************************************************************************)
NoWrite == [fn |-> "none", idx |-> 0, val |-> 0]

NoOp == [opcode |-> "none", buildable |-> TRUE, body |-> [shape |-> "none"]]

Pending == [ok |-> FALSE, err |-> NoErr, avc |-> NoAvcErr, ret |-> 0, op |-> NoOp]

\* Ok(ret), with the operand as the call left it.
Ok(ret, op) == [ok |-> TRUE, err |-> NoErr, avc |-> NoAvcErr, ret |-> ret, op |-> op]

\* Err(e) made by the operation itself.
Err(e, op) == [ok |-> FALSE, err |-> e, avc |-> NoAvcErr, ret |-> 0, op |-> op]

\* Faulty variant of Failed: the error of the call is dropped and the operation
\* goes on to return Ok.
FailedAsOk(r) == [ok |-> TRUE, err |-> NoErr, avc |-> NoAvcErr, ret |-> 0, op |-> r.op]

\* Err(e) handed on from BebobAvc::control / status (the operator ?).
Failed(r) == [ok |-> FALSE, err |-> r.err, avc |-> r.avc, ret |-> 0, op |-> r.op]

\* No concurrent callers: the variables of the concurrent view stay empty.
NoCallers ==
    /\ thr = <<>>
    /\ avcs = <<>>
    /\ bus = <<>>
    /\ devs = <<>>

\* No session followed and no runtime: their variables stay empty.
NoSession == sess = <<>>

NoRuntime ==
    /\ channel = <<>>
    /\ main = <<>>
    /\ dispatchers = <<>>
    /\ disp = <<>>
    /\ timer = "None"
    /\ timer_threads = 0
    /\ unit_locked = FALSE
    /\ lockers = <<>>
    /\ lock_log = <<>>
    /\ last = <<>>
    /\ meter = <<>>

\* No control handler is exercised.
NoCtl ==
    /\ ctls = <<>>
    /\ call = <<>>
    /\ lock = "free"
    /\ wire = <<>>
    /\ hw = <<>>
    /\ elem_value = <<>>

Init ==
    /\ impl \in Impls
    /\ pc = "idle"
    /\ cur = [fn |-> "none", idx |-> 0, val |-> 0, ctype |-> "none", addr |-> "none",
              op |-> NoOp, step |-> 0]
    /\ sent = <<>>
    /\ acks = <<>>
    /\ res = Pending
    /\ lastWrite = NoWrite
    /\ dev \in DevInits
    /\ NoCallers
    /\ NoSession
    /\ NoRuntime
    /\ NoCtl

\* Faulty variant of Refuse: the refusal is reported as I/O error.
RefuseWithIo(fn, idx, val, err) ==
    /\ pc = "idle"
    /\ cur' = [fn |-> fn, idx |-> idx, val |-> val, ctype |-> "none", addr |-> "none",
               op |-> NoOp, step |-> 0]
    /\ sent' = <<>>
    /\ acks' = <<>>
    /\ res' = Err(FileErrorIo, NoOp)
    /\ pc' = "idle"
    /\ UNCHANGED <<nonSerialVars, impl, lastWrite, dev>>

\* An operation returns err before it has built any command.
Refuse(fn, idx, val, err) ==
    /\ pc = "idle"
    /\ cur' = [fn |-> fn, idx |-> idx, val |-> val, ctype |-> "none", addr |-> "none",
               op |-> NoOp, step |-> 0]
    /\ sent' = <<>>
    /\ acks' = <<>>
    /\ res' = Err(err, NoOp)
    /\ pc' = "idle"
    /\ UNCHANGED <<nonSerialVars, impl, lastWrite, dev>>

\* BebobAvc::control / status up to the call of transaction(): the command is
\* built and handed to the transport, or the call returns the build failure.
Issue(fn, idx, val, ctype, addr, op) ==
    LET c == CommandFrame(ctype, addr, op) IN
    /\ pc = "idle"
    /\ cur' = [fn |-> fn, idx |-> idx, val |-> val, ctype |-> ctype, addr |-> addr,
               op |-> op, step |-> 1]
    /\ acks' = <<>>
    /\ IF c.ok
       THEN /\ sent' = <<c.frame>>
            /\ pc' = "wait"
            /\ res' = Pending
            /\ lastWrite' = IF ctype = "Control" THEN NoWrite ELSE lastWrite
       ELSE /\ sent' = <<>>
            /\ pc' = "idle"
            /\ res' = Failed(MapErr([ok |-> FALSE, err |-> c.err, op |-> op]))
            /\ UNCHANGED lastWrite
    /\ UNCHANGED <<nonSerialVars, impl, dev>>

\* BebobAvc::control from the return of transaction().
BebobControl(addr, op, tr) == MapErr(ControlAfterTransaction(addr, op, tr))

\* Faulty variant of BebobStatus: the quirk of control is applied to status too,
\* and the reserved code 0x00 is taken for the three quirk opcodes.
BebobStatusWithQuirk(addr, op, tr) ==
    MapErr(AfterTransaction(addr, op, tr,
        /\ tr.kind = "frame"
        /\ \/ ExpectedStatus(op.opcode, AvcRespCodeFrom(tr.code))
           \/ /\ op.opcode \in {"InputPlugSignalFormat", "OutputPlugSignalFormat", "SignalSource"}
              /\ AvcRespCodeFrom(tr.code) = Reserved(0)))

\* BebobAvc::status from the return of transaction().
BebobStatus(addr, op, tr) == MapErr(StatusAfterTransaction(addr, op, tr))

\* The operation fn is blocked in transaction().
Blocked(fn) == pc = "wait" /\ cur.fn = fn

\* transaction() returns to the blocked operation with outcome o.
Returns(o) ==
    /\ dev' = o.dev
    /\ acks' = Append(acks, o.tr)

\* Faulty variant of ControlTail: a command that failed is sent once more.
ControlTailRetrying(fn) ==
    /\ Blocked(fn)
    /\ \E o \in DeviceOutcomes(dev, sent[Len(sent)]) :
        LET r == BebobControl(cur.addr, cur.op, o.tr) IN
        /\ Returns(o)
        /\ IF ~r.ok /\ Len(acks) = 0
           THEN /\ sent' = Append(sent, sent[Len(sent)])
                /\ UNCHANGED <<pc, res, lastWrite>>
           ELSE /\ pc' = "idle"
                /\ res' = IF r.ok THEN Ok(0, r.op) ELSE Failed(r)
                /\ lastWrite' = IF r.ok THEN [fn |-> fn, idx |-> cur.idx, val |-> cur.val]
                                ELSE NoWrite
                /\ UNCHANGED sent
        /\ UNCHANGED <<nonSerialVars, impl, cur>>

\* The operation ends with the result of its last control command.
ControlTail(fn) ==
    /\ Blocked(fn)
    /\ \E o \in DeviceOutcomes(dev, sent[Len(sent)]) :
        LET r == BebobControl(cur.addr, cur.op, o.tr) IN
        /\ Returns(o)
        /\ pc' = "idle"
        /\ res' = IF r.ok THEN Ok(0, r.op) ELSE Failed(r)
        /\ lastWrite' = IF r.ok THEN [fn |-> fn, idx |-> cur.idx, val |-> cur.val] ELSE NoWrite
        /\ UNCHANGED <<nonSerialVars, impl, cur, sent>>

(***************************************************************************)
(* BebobAvc::control and BebobAvc::status called with any operand.         *)
(***************************************************************************)
RawOps ==
    {[opcode |-> oc, buildable |-> b, body |-> [shape |-> "Opaque"]] :
        oc \in Opcodes, b \in BOOLEAN}

control(addr, op) ==
    /\ impl = "Raw"
    /\ Issue("control", 0, 0, "Control", addr, op)

control_return ==
    /\ impl = "Raw"
    /\ ControlTail("control")

status(addr, op) ==
    /\ impl = "Raw"
    /\ Issue("status", 0, 0, "Status", addr, op)

status_return ==
    /\ Blocked("status")
    /\ \E o \in DeviceOutcomes(dev, sent[Len(sent)]) :
        LET r == BebobStatus(cur.addr, cur.op, o.tr) IN
        /\ Returns(o)
        /\ pc' = "idle"
        /\ res' = IF r.ok THEN Ok(0, r.op) ELSE Failed(r)
        /\ UNCHANGED <<nonSerialVars, impl, cur, sent, lastWrite>>

(***************************************************************************)
(* MediaClockFrequencyOperation.                                           *)
(***************************************************************************)
ImplementsClk == impl \in {"Clk", "ClkRepeat"}

read_clk_freq ==
    /\ ImplementsClk
    /\ Issue("read_clk_freq", 0, 0, "Status", "Unit",
             ExtendedStreamFormatSingleNew("Unit.Output.Isoc0"))

\* Faulty variant of ReadClkFreqResult: the last matching index is returned.
ReadClkFreqResultLast(list, op) ==
    IF op.body.stream_format.kind # "BcoCompoundAm824"
    THEN Err(FileErrorNxio, op)
    ELSE IF HasPosition(list, op.body.stream_format.freq)
         THEN Ok(CHOOSE i \in Positions(list, op.body.stream_format.freq) :
                    \A j \in Positions(list, op.body.stream_format.freq) : j <= i, op)
         ELSE Err(FileErrorIo, op)

\* Faulty variant of ReadClkFreqResult: a frequency that is not in the table is
\* answered with the length of the table instead of an error.
ReadClkFreqResultOrLength(list, op) ==
    IF op.body.stream_format.kind # "BcoCompoundAm824"
    THEN Err(FileErrorNxio, op)
    ELSE IF HasPosition(list, op.body.stream_format.freq)
         THEN Ok(Position(list, op.body.stream_format.freq), op)
         ELSE Ok(Len(list), op)

\* The index of the reported frequency in the table, after a successful status.
ReadClkFreqResult(list, op) ==
    IF op.body.stream_format.kind # "BcoCompoundAm824"
    THEN Err(FileErrorNxio, op)
    ELSE IF HasPosition(list, op.body.stream_format.freq)
         THEN Ok(Position(list, op.body.stream_format.freq), op)
         ELSE Err(FileErrorIo, op)

read_clk_freq_return ==
    /\ Blocked("read_clk_freq")
    /\ \E o \in DeviceOutcomes(dev, sent[Len(sent)]) :
        LET r == BebobStatus(cur.addr, cur.op, o.tr) IN
        /\ Returns(o)
        /\ pc' = "idle"
        /\ res' = IF r.ok THEN ReadClkFreqResult(FREQ_LIST(impl), r.op) ELSE Failed(r)
        /\ UNCHANGED <<nonSerialVars, impl, cur, sent, lastWrite>>

\* Faulty variant of WriteClkFreqFirst: the output plug is set first.
WriteClkFreqFirstOnOutput(freq) ==
    PlugSignalFormatOp("OutputPlugSignalFormat", 0, AmdtpFdfBytes(freq))

\* The first command of write_clk_freq: the format of unit input plug 0.
WriteClkFreqFirst(freq) == PlugSignalFormatOp("InputPlugSignalFormat", 0, AmdtpFdfBytes(freq))

\* The second command of write_clk_freq: the format of unit output plug 0.
WriteClkFreqSecond(freq) == PlugSignalFormatOp("OutputPlugSignalFormat", 0, AmdtpFdfBytes(freq))

\* Faulty variant of write_clk_freq: the second command is sent without waiting
\* for the response to the first.
write_clk_freq_pipelined(idx) ==
    /\ ImplementsClk
    /\ pc = "idle"
    /\ HasNth(FREQ_LIST(impl), idx)
    /\ cur' = [fn |-> "write_clk_freq", idx |-> idx, val |-> 0, ctype |-> "Control",
               addr |-> "Unit", op |-> WriteClkFreqFirst(Nth(FREQ_LIST(impl), idx)), step |-> 1]
    /\ sent' = <<CommandFrame("Control", "Unit", WriteClkFreqFirst(Nth(FREQ_LIST(impl), idx))).frame,
                 CommandFrame("Control", "Unit", WriteClkFreqSecond(Nth(FREQ_LIST(impl), idx))).frame>>
    /\ acks' = <<>>
    /\ pc' = "wait"
    /\ res' = Pending
    /\ lastWrite' = NoWrite
    /\ UNCHANGED <<nonSerialVars, impl, dev>>

write_clk_freq(idx) ==
    /\ ImplementsClk
    /\ IF HasNth(FREQ_LIST(impl), idx)
       THEN Issue("write_clk_freq", idx, 0, "Control", "Unit",
                  WriteClkFreqFirst(Nth(FREQ_LIST(impl), idx)))
       ELSE Refuse("write_clk_freq", idx, 0, FileErrorInval)

\* Faulty variant of WriteClkFreqGoesOn: the result of the first control is dropped.
WriteClkFreqGoesOnAnyway(r) == TRUE

\* Whether write_clk_freq goes on to its second command after the first control
\* returned r.
WriteClkFreqGoesOn(r) == r.ok

\* The first control of write_clk_freq returns: its error ends the operation,
\* otherwise the second command is built and sent.
write_clk_freq_first_return ==
    /\ Blocked("write_clk_freq")
    /\ cur.step = 1
    /\ \E o \in DeviceOutcomes(dev, sent[Len(sent)]) :
        LET r == BebobControl(cur.addr, cur.op, o.tr)
            op2 == WriteClkFreqSecond(Nth(FREQ_LIST(impl), cur.idx))
            c == CommandFrame("Control", "Unit", op2)
        IN
        /\ Returns(o)
        /\ IF ~WriteClkFreqGoesOn(r)
           THEN /\ pc' = "idle"
                /\ res' = Failed(r)
                /\ UNCHANGED <<cur, sent>>
           ELSE /\ cur' = [cur EXCEPT !.op = op2, !.step = 2]
                /\ IF c.ok
                   THEN /\ sent' = Append(sent, c.frame)
                        /\ pc' = "wait"
                        /\ res' = Pending
                   ELSE /\ pc' = "idle"
                        /\ res' = Failed(MapErr([ok |-> FALSE, err |-> c.err, op |-> op2]))
                        /\ UNCHANGED sent
        /\ UNCHANGED <<nonSerialVars, impl, lastWrite>>

write_clk_freq_second_return ==
    /\ cur.step = 2
    /\ ControlTail("write_clk_freq")

(***************************************************************************)
(* SamplingClockSourceOperation.                                           *)
(***************************************************************************)
read_clk_src ==
    /\ ImplementsClk
    /\ Issue("read_clk_src", 0, 0, "Status", "Unit", SignalSourceNew(DST(impl)))

\* Faulty variant of ReadClkSrcResult: a source that is not in the table is
\* reported with the error of an invalid argument.
ReadClkSrcResultInval(list, op) ==
    IF HasPosition(list, op.body.src)
    THEN Ok(Position(list, op.body.src), op)
    ELSE Err(FileErrorInval, op)

\* The index of the reported source in the table, after a successful status.
\* Faulty variant of ReadClkSrcResult: the last match instead of the first.
ReadClkSrcResultLast(list, op) ==
    IF HasPosition(list, op.body.src)
    THEN Ok(CHOOSE i \in Positions(list, op.body.src) :
                \A j \in Positions(list, op.body.src) : j <= i, op)
    ELSE Err(FileErrorIo, op)

ReadClkSrcResult(list, op) ==
    IF HasPosition(list, op.body.src)
    THEN Ok(Position(list, op.body.src), op)
    ELSE Err(FileErrorIo, op)

read_clk_src_return ==
    /\ Blocked("read_clk_src")
    /\ \E o \in DeviceOutcomes(dev, sent[Len(sent)]) :
        LET r == BebobStatus(cur.addr, cur.op, o.tr) IN
        /\ Returns(o)
        /\ pc' = "idle"
        /\ res' = IF r.ok THEN ReadClkSrcResult(SRC_LIST(impl), r.op) ELSE Failed(r)
        /\ UNCHANGED <<nonSerialVars, impl, cur, sent, lastWrite>>

\* SignalSource::new(&DST) with op.src = src.
WriteClkSrcOp(dst, src) ==
    [SignalSourceNew(dst) EXCEPT !.body.src = src]

write_clk_src(idx) ==
    /\ ImplementsClk
    /\ IF HasNth(SRC_LIST(impl), idx)
       THEN Issue("write_clk_src", idx, 0, "Control", "Unit",
                  WriteClkSrcOp(DST(impl), Nth(SRC_LIST(impl), idx)))
       ELSE Refuse("write_clk_src", idx, 0, FileErrorInval)

\* Faulty variant of write_clk_src_return: after the control command is taken the
\* source is read back with a status command before the operation returns.
write_clk_src_return_reading_back ==
    /\ ImplementsClk
    /\ Blocked("write_clk_src")
    /\ \E o \in DeviceOutcomes(dev, sent[Len(sent)]) :
        LET r == IF Len(sent) = 1
                 THEN BebobControl(cur.addr, cur.op, o.tr)
                 ELSE BebobStatus(cur.addr, SignalSourceNew(DST(impl)), o.tr)
        IN
        /\ Returns(o)
        /\ IF r.ok /\ Len(sent) = 1
           THEN /\ sent' = Append(sent, CommandFrame("Status", "Unit",
                                                     SignalSourceNew(DST(impl))).frame)
                /\ UNCHANGED <<pc, res, lastWrite>>
           ELSE /\ pc' = "idle"
                /\ res' = IF r.ok THEN Ok(0, r.op) ELSE Failed(r)
                /\ lastWrite' = IF r.ok THEN [fn |-> cur.fn, idx |-> cur.idx, val |-> cur.val]
                                ELSE NoWrite
                /\ UNCHANGED sent
        /\ UNCHANGED <<nonSerialVars, impl, cur>>

write_clk_src_return ==
    /\ ImplementsClk
    /\ ControlTail("write_clk_src")

(***************************************************************************)
(* AvcLevelOperation, AvcLrBalanceOperation, AvcMuteOperation.             *)
(***************************************************************************)
ImplementsLevel == impl = "Level"

ImplementsLrBalance == impl = "LrBalance"

ImplementsMute == impl = "Mute"

read_level(idx) ==
    /\ ImplementsLevel
    /\ IF HasNth(ENTRIES(impl), idx)
       THEN Issue("read_level", idx, 0, "Status", AUDIO_SUBUNIT_0_ADDR,
                  AudioFeatureNew(Nth(ENTRIES(impl), idx)[1], "Current",
                                  Nth(ENTRIES(impl), idx)[2], FeatureVolume(-1)))
       ELSE Refuse("read_level", idx, 0, FileErrorInval)

\* The value read_level returns after a successful status: the operand's control
\* value when it is the Volume variant; any other variant is unreachable!().
ReadLevelResult(op) ==
    IF op.body.ctl.variant = "Volume"
    THEN Ok(op.body.ctl.data, op)
    ELSE Err([domain |-> "panic", code |-> "unreachable"], op)

read_level_return ==
    /\ Blocked("read_level")
    /\ \E o \in DeviceOutcomes(dev, sent[Len(sent)]) :
        LET r == BebobStatus(cur.addr, cur.op, o.tr) IN
        /\ Returns(o)
        /\ pc' = "idle"
        /\ res' = IF r.ok THEN ReadLevelResult(r.op) ELSE Failed(r)
        /\ UNCHANGED <<nonSerialVars, impl, cur, sent, lastWrite>>

\* Faulty variant of WriteLevelOp: the level is clamped to LEVEL_MAX.
WriteLevelOpClamped(entry, vol) ==
    AudioFeatureNew(entry[1], "Current", entry[2],
                    FeatureVolume(IF vol > LEVEL_MAX THEN LEVEL_MAX ELSE vol))

\* The operand of write_level for entry (func_block_id, audio_ch) and the value.
WriteLevelOp(entry, vol) == AudioFeatureNew(entry[1], "Current", entry[2], FeatureVolume(vol))

\* Faulty variant of write_level: a level above LEVEL_MAX is refused as an invalid
\* argument before anything is sent.
write_level_range_checked(idx, vol) ==
    /\ ImplementsLevel
    /\ IF HasNth(ENTRIES(impl), idx) /\ vol <= LEVEL_MAX
       THEN Issue("write_level", idx, vol, "Control", AUDIO_SUBUNIT_0_ADDR,
                  WriteLevelOp(Nth(ENTRIES(impl), idx), vol))
       ELSE Refuse("write_level", idx, vol, FileErrorInval)

write_level(idx, vol) ==
    /\ ImplementsLevel
    /\ IF HasNth(ENTRIES(impl), idx)
       THEN Issue("write_level", idx, vol, "Control", AUDIO_SUBUNIT_0_ADDR,
                  WriteLevelOp(Nth(ENTRIES(impl), idx), vol))
       ELSE Refuse("write_level", idx, vol, FileErrorInval)

write_level_return ==
    /\ ImplementsLevel
    /\ ControlTail("write_level")

read_lr_balance(idx) ==
    /\ ImplementsLrBalance
    /\ IF HasNth(ENTRIES(impl), idx)
       THEN Issue("read_lr_balance", idx, 0, "Status", AUDIO_SUBUNIT_0_ADDR,
                  AudioFeatureNew(Nth(ENTRIES(impl), idx)[1], "Current",
                                  Nth(ENTRIES(impl), idx)[2], FeatureLrBalance(-1)))
       ELSE Refuse("read_lr_balance", idx, 0, FileErrorInval)

\* Faulty variant of ReadLrBalanceResult: the operand is matched against the
\* Volume variant, as in read_level.
ReadLrBalanceResultVolume(op) ==
    IF op.body.ctl.variant = "Volume"
    THEN Ok(op.body.ctl.data, op)
    ELSE Err([domain |-> "panic", code |-> "unreachable"], op)

\* The value read_lr_balance returns after a successful status: the operand's control
\* value when it is the LrBalance variant; any other variant is unreachable!().
ReadLrBalanceResult(op) ==
    IF op.body.ctl.variant = "LrBalance"
    THEN Ok(op.body.ctl.data, op)
    ELSE Err([domain |-> "panic", code |-> "unreachable"], op)

read_lr_balance_return ==
    /\ Blocked("read_lr_balance")
    /\ \E o \in DeviceOutcomes(dev, sent[Len(sent)]) :
        LET r == BebobStatus(cur.addr, cur.op, o.tr) IN
        /\ Returns(o)
        /\ pc' = "idle"
        /\ res' = IF r.ok THEN ReadLrBalanceResult(r.op) ELSE Failed(r)
        /\ UNCHANGED <<nonSerialVars, impl, cur, sent, lastWrite>>

\* Faulty variant of WriteLrBalanceOp: the balance is rounded down to a multiple
\* of BALANCE_STEP.
WriteLrBalanceOpStepped(entry, balance) ==
    AudioFeatureNew(entry[1], "Current", entry[2],
                    FeatureLrBalance((balance \div BALANCE_STEP) * BALANCE_STEP))

\* The operand of write_lr_balance for entry (func_block_id, audio_ch) and the value.
WriteLrBalanceOp(entry, balance) == AudioFeatureNew(entry[1], "Current", entry[2], FeatureLrBalance(balance))

write_lr_balance(idx, balance) ==
    /\ ImplementsLrBalance
    /\ IF HasNth(ENTRIES(impl), idx)
       THEN Issue("write_lr_balance", idx, balance, "Control", AUDIO_SUBUNIT_0_ADDR,
                  WriteLrBalanceOp(Nth(ENTRIES(impl), idx), balance))
       ELSE Refuse("write_lr_balance", idx, balance, FileErrorInval)

write_lr_balance_return ==
    /\ ImplementsLrBalance
    /\ ControlTail("write_lr_balance")

read_mute(idx) ==
    /\ ImplementsMute
    /\ IF HasNth(ENTRIES(impl), idx)
       THEN Issue("read_mute", idx, 0, "Status", AUDIO_SUBUNIT_0_ADDR,
                  AudioFeatureNew(Nth(ENTRIES(impl), idx)[1], "Current",
                                  Nth(ENTRIES(impl), idx)[2], FeatureMute(FALSE)))
       ELSE Refuse("read_mute", idx, 0, FileErrorInval)

\* The value read_mute returns after a successful status: the operand's control
\* value when it is the Mute variant; any other variant is unreachable!().
ReadMuteResult(op) ==
    IF op.body.ctl.variant = "Mute"
    THEN Ok(op.body.ctl.data, op)
    ELSE Err([domain |-> "panic", code |-> "unreachable"], op)

read_mute_return ==
    /\ Blocked("read_mute")
    /\ \E o \in DeviceOutcomes(dev, sent[Len(sent)]) :
        LET r == BebobStatus(cur.addr, cur.op, o.tr) IN
        /\ Returns(o)
        /\ pc' = "idle"
        /\ res' = IF r.ok THEN ReadMuteResult(r.op) ELSE Failed(r)
        /\ UNCHANGED <<nonSerialVars, impl, cur, sent, lastWrite>>

\* The operand of write_mute for entry (func_block_id, audio_ch) and the value.
WriteMuteOp(entry, mute) == AudioFeatureNew(entry[1], "Current", entry[2], FeatureMute(mute))

write_mute(idx, mute) ==
    /\ ImplementsMute
    /\ IF HasNth(ENTRIES(impl), idx)
       THEN Issue("write_mute", idx, mute, "Control", AUDIO_SUBUNIT_0_ADDR,
                  WriteMuteOp(Nth(ENTRIES(impl), idx), mute))
       ELSE Refuse("write_mute", idx, mute, FileErrorInval)

write_mute_return ==
    /\ ImplementsMute
    /\ ControlTail("write_mute")

(***************************************************************************)
(* AvcSelectorOperation.                                                   *)
(***************************************************************************)
ImplementsSelector == impl \in {"Selector", "SelectorRepeat"}

\* Error::new(FileError::Inval, "Invalid index of selector: {idx}").
InvalidSelectorIndex(idx) ==
    [domain |-> "FileError", code |-> "Inval", msg |-> "Invalid index of selector", arg |-> idx]

\* Error::new(FileError::Inval, "Invalid index of input plug number: {val}").
InvalidInputPlugIndex(val) ==
    [domain |-> "FileError", code |-> "Inval", msg |-> "Invalid index of input plug number",
     arg |-> val]

\* Faulty variant of read_selector: the first function block is queried whatever
\* the index.
read_selector_first_block(idx) ==
    /\ ImplementsSelector
    /\ IF HasNth(FUNC_BLOCK_ID_LIST(impl), idx)
       THEN Issue("read_selector", idx, 0, "Status", AUDIO_SUBUNIT_0_ADDR,
                  AudioSelectorNew(Nth(FUNC_BLOCK_ID_LIST(impl), 0), "Current", 255))
       ELSE Refuse("read_selector", idx, 0, InvalidSelectorIndex(idx))

read_selector(idx) ==
    /\ ImplementsSelector
    /\ IF HasNth(FUNC_BLOCK_ID_LIST(impl), idx)
       THEN Issue("read_selector", idx, 0, "Status", AUDIO_SUBUNIT_0_ADDR,
                  AudioSelectorNew(Nth(FUNC_BLOCK_ID_LIST(impl), idx), "Current", 255))
       ELSE Refuse("read_selector", idx, 0, InvalidSelectorIndex(idx))

\* Faulty variant of ReadSelectorResult: the last matching index is returned.
ReadSelectorResultLast(list, op) ==
    IF HasPosition(list, op.body.input_plug_id)
    THEN Ok(CHOOSE i \in Positions(list, op.body.input_plug_id) :
                \A j \in Positions(list, op.body.input_plug_id) : j <= i, op)
    ELSE Err(FileErrorIo, op)

\* The index of the reported input plug in the table, after a successful status.
ReadSelectorResult(list, op) ==
    IF HasPosition(list, op.body.input_plug_id)
    THEN Ok(Position(list, op.body.input_plug_id), op)
    ELSE Err(FileErrorIo, op)

read_selector_return ==
    /\ Blocked("read_selector")
    /\ \E o \in DeviceOutcomes(dev, sent[Len(sent)]) :
        LET r == BebobStatus(cur.addr, cur.op, o.tr) IN
        /\ Returns(o)
        /\ pc' = "idle"
        /\ res' = IF r.ok THEN ReadSelectorResult(INPUT_PLUG_ID_LIST(impl), r.op)
                  ELSE Failed(r)
        /\ UNCHANGED <<nonSerialVars, impl, cur, sent, lastWrite>>

\* The operand of write_selector for function block func_block_id and plug.
WriteSelectorOp(func_block_id, input_plug_id) ==
    AudioSelectorNew(func_block_id, "Current", input_plug_id)

\* Faulty variant of write_selector: the value index is checked before the
\* selector index.
write_selector_val_first(idx, val) ==
    /\ ImplementsSelector
    /\ IF ~HasNth(INPUT_PLUG_ID_LIST(impl), val)
       THEN Refuse("write_selector", idx, val, InvalidInputPlugIndex(val))
       ELSE IF ~HasNth(FUNC_BLOCK_ID_LIST(impl), idx)
            THEN Refuse("write_selector", idx, val, InvalidSelectorIndex(idx))
            ELSE Issue("write_selector", idx, val, "Control", AUDIO_SUBUNIT_0_ADDR,
                       WriteSelectorOp(Nth(FUNC_BLOCK_ID_LIST(impl), idx),
                                       Nth(INPUT_PLUG_ID_LIST(impl), val)))

write_selector(idx, val) ==
    /\ ImplementsSelector
    /\ IF ~HasNth(FUNC_BLOCK_ID_LIST(impl), idx)
       THEN Refuse("write_selector", idx, val, InvalidSelectorIndex(idx))
       ELSE IF ~HasNth(INPUT_PLUG_ID_LIST(impl), val)
            THEN Refuse("write_selector", idx, val, InvalidInputPlugIndex(val))
            ELSE Issue("write_selector", idx, val, "Control", AUDIO_SUBUNIT_0_ADDR,
                       WriteSelectorOp(Nth(FUNC_BLOCK_ID_LIST(impl), idx),
                                       Nth(INPUT_PLUG_ID_LIST(impl), val)))

write_selector_return ==
    /\ ImplementsSelector
    /\ ControlTail("write_selector")

NextRaw ==
    \/ \E addr \in AvcAddrs, op \in RawOps : control(addr, op)
    \/ control_return
    \/ \E addr \in AvcAddrs, op \in RawOps : status(addr, op)
    \/ status_return

NextClk ==
    \/ read_clk_freq
    \/ read_clk_freq_return
    \/ \E idx \in Indices : write_clk_freq(idx)
    \/ write_clk_freq_first_return
    \/ write_clk_freq_second_return
    \/ read_clk_src
    \/ read_clk_src_return
    \/ \E idx \in Indices : write_clk_src(idx)
    \/ write_clk_src_return

NextFeature ==
    \/ \E idx \in Indices : read_level(idx)
    \/ read_level_return
    \/ \E idx \in Indices, vol \in I16Vals : write_level(idx, vol)
    \/ write_level_return
    \/ \E idx \in Indices : read_lr_balance(idx)
    \/ read_lr_balance_return
    \/ \E idx \in Indices, balance \in I16Vals : write_lr_balance(idx, balance)
    \/ write_lr_balance_return
    \/ \E idx \in Indices : read_mute(idx)
    \/ read_mute_return
    \/ \E idx \in Indices, mute \in BOOLEAN : write_mute(idx, mute)
    \/ write_mute_return

NextSelector ==
    \/ \E idx \in Indices : read_selector(idx)
    \/ read_selector_return
    \/ \E idx \in Indices, val \in Indices : write_selector(idx, val)
    \/ write_selector_return

Next == NextRaw \/ NextClk \/ NextFeature \/ NextSelector

Spec == Init /\ [][Next]_vars

(***************************************************************************)
(* Concurrent callers.  Execution contexts call BebobAvc::control and      *)
(* BebobAvc::status at the same time, both on one instance or each on its  *)
(* own.  An instance holds an FwFcp of its own, which bind() binds to a    *)
(* node; a call blocks in transaction() from the moment its frame is on    *)
(* the bus until the transport returns a response or an error.             *)
(***************************************************************************)
Callers == {"t1", "t2"}

Avcs == {"avc1", "avc2"}

Nodes == {"node1", "node2"}

\* Faulty variant of OwnFcp: every instance holds the one same FwFcp.
SharedFcp(a) == "avc1"

\* The FwFcp that BebobAvc::default() puts into instance a: a new one, named
\* here after the instance.
OwnFcp(a) == a

\* Faulty variant of TransactionAdmitted: a call waits until nothing is in
\* flight through the FwFcp, as it would with a lock around the transaction.
TransactionAdmittedWhenFree(f) == bus[f].inflight = <<>>

\* control and status go from the command frame straight to transaction(): they
\* take &self and no lock, so a call is let through to the FwFcp whatever is in
\* flight there.
TransactionAdmitted(f) == TRUE

\* The commands the callers issue: SignalSource with a destination, as a control
\* command that sets its source or as a status command that asks for it.
ControlOps == {WriteClkSrcOp(DST("Clk"), s) : s \in {"Subunit.Music0.Src1", "Unit.Ext4"}}

StatusOps == {SignalSourceNew(DST("Clk"))}

NoCall == [fn |-> "none", addr |-> "none", op |-> NoOp, frame |-> <<>>]

\* No caller of the serial view: its variables stay as they are.
NoSerialCaller ==
    /\ impl = "none"
    /\ pc = "idle"
    /\ cur = NoCall
    /\ sent = <<>>
    /\ acks = <<>>
    /\ res = Pending
    /\ lastWrite = NoWrite
    /\ dev = <<>>

\* Two instances just constructed and not bound; caller t1 uses the first one,
\* caller t2 the same one or the second; the two devices differ in their state.
InitConcurrent ==
    /\ thr \in {[t \in Callers |->
                    [avc |-> IF t = "t1" THEN "avc1" ELSE a, pc |-> "idle", cur |-> NoCall,
                     res |-> Pending]] : a \in Avcs}
    /\ avcs = [a \in Avcs |-> [fcp |-> OwnFcp(a), node |-> "none"]]
    /\ bus = [f \in Avcs |-> [node |-> "none", inflight |-> <<>>]]
    /\ devs = [n \in Nodes |->
                CHOOSE d \in DevInits :
                    d.src = (IF n = "node1" THEN "Unit.Ext4" ELSE "Unit.Isoc1")]
    /\ NoSerialCaller
    /\ NoSession
    /\ NoRuntime
    /\ NoCtl

\* BebobAvc::bind, called once per instance: the FwFcp of the instance is bound to
\* the node, unless it is bound already.
bind(a, n) ==
    /\ avcs[a].node = "none"
    /\ avcs' = [avcs EXCEPT ![a].node = n]
    /\ bus' = [bus EXCEPT ![avcs[a].fcp].node = IF @ = "none" THEN n ELSE @]
    /\ UNCHANGED <<thr, devs, serialVars, sessVars, rtVars, ctlVars>>

\* BebobAvc::control / status of caller t up to the call of transaction(): the
\* command frame is built and put on the bus through the FwFcp of the caller's
\* instance, or the call returns the build failure.
Enter(t, fn, ctype, addr, op) ==
    LET f == avcs[thr[t].avc].fcp
        c == CommandFrame(ctype, addr, op)
    IN
    /\ thr[t].pc = "idle"
    /\ bus[f].node # "none"
    /\ TransactionAdmitted(f)
    /\ IF c.ok
       THEN /\ thr' = [thr EXCEPT ![t].pc = "wait",
                                  ![t].cur = [fn |-> fn, addr |-> addr, op |-> op,
                                              frame |-> c.frame],
                                  ![t].res = Pending]
            /\ bus' = [bus EXCEPT ![f].inflight = Append(@, c.frame)]
       ELSE /\ thr' = [thr EXCEPT ![t].cur = [fn |-> fn, addr |-> addr, op |-> op,
                                              frame |-> <<>>],
                                  ![t].res = Failed(MapErr([ok |-> FALSE, err |-> c.err,
                                                            op |-> op]))]
            /\ UNCHANGED bus
    /\ UNCHANGED <<avcs, devs, serialVars, sessVars, rtVars, ctlVars>>

\* The frames in flight through FwFcp f that the transport can pair with the
\* transaction of command frame c: a response is told from another by the address
\* and the opcode it answers.
Matching(f, c) ==
    {k \in 1..Len(bus[f].inflight) :
        /\ bus[f].inflight[k].addr = c.addr
        /\ bus[f].inflight[k].opcode = c.opcode}

RemoveAt(s, k) == SubSeq(s, 1, k - 1) \o SubSeq(s, k + 1, Len(s))

\* transaction() of caller t returns the outcome o of frame k in flight through
\* FwFcp f, and r is what control / status make of it.
Leave(t, f, k, o, r) ==
    /\ devs' = [devs EXCEPT ![bus[f].node] = o.dev]
    /\ bus' = [bus EXCEPT ![f].inflight = RemoveAt(@, k)]
    /\ thr' = [thr EXCEPT ![t].pc = "idle",
                          ![t].res = IF r.ok THEN Ok(0, r.op) ELSE Failed(r)]
    /\ UNCHANGED <<avcs, serialVars, sessVars, rtVars, ctlVars>>

control_by(t, addr, op) ==
    /\ t \in Callers
    /\ Enter(t, "control", "Control", addr, op)

control_by_return(t) ==
    /\ thr[t].pc = "wait"
    /\ thr[t].cur.fn = "control"
    /\ LET f == avcs[thr[t].avc].fcp IN
       \E k \in Matching(f, thr[t].cur.frame) :
           \E o \in DeviceOutcomes(devs[bus[f].node], bus[f].inflight[k]) :
               Leave(t, f, k, o, BebobControl(thr[t].cur.addr, thr[t].cur.op, o.tr))

status_by(t, addr, op) ==
    /\ t \in Callers
    /\ Enter(t, "status", "Status", addr, op)

status_by_return(t) ==
    /\ thr[t].pc = "wait"
    /\ thr[t].cur.fn = "status"
    /\ LET f == avcs[thr[t].avc].fcp IN
       \E k \in Matching(f, thr[t].cur.frame) :
           \E o \in DeviceOutcomes(devs[bus[f].node], bus[f].inflight[k]) :
               Leave(t, f, k, o, BebobStatus(thr[t].cur.addr, thr[t].cur.op, o.tr))

NextConcurrent ==
    \/ \E a \in Avcs, n \in Nodes : bind(a, n)
    \/ \E t \in Callers, op \in ControlOps : control_by(t, "Unit", op)
    \/ \E t \in Callers : control_by_return(t)
    \/ \E t \in Callers, op \in StatusOps : status_by(t, "Unit", op)
    \/ \E t \in Callers : status_by_return(t)

SpecConcurrent == InitConcurrent /\ [][NextConcurrent]_vars

(***************************************************************************)
(* One instance over a session.  A caller makes one call after another on  *)
(* the same BebobAvc.  The struct holds its FwFcp and nothing else, and    *)
(* control and status take &self: a call leaves nothing in the instance.   *)
(* `before` keeps, for the caller, how the call before the present one     *)
(* ended.                                                                  *)
(***************************************************************************)
\* The operands a session calls control with: a source for DST, or an operand
\* structure that cannot be built.
SessionControlOps == ControlOps \cup {[op EXCEPT !.buildable = FALSE] : op \in ControlOps}

\* The operands a session calls status with.
SessionStatusOps == StatusOps \cup {AudioSelectorNew(1, "Current", 255)}

NoAck == [kind |-> "none"]

\* How a call ended: its Result without the operand.
Outcome(r) == [ok |-> r.ok, err |-> r.err, avc |-> r.avc]

FirstCall == [ok |-> TRUE, err |-> NoErr, avc |-> [kind |-> "first", cause |-> "none"]]

InitSession ==
    /\ sess \in {[pc |-> "idle", cur |-> NoCall, ack |-> NoAck, res |-> Pending,
                  before |-> FirstCall, dev |-> d] : d \in DevInits}
    /\ NoSerialCaller
    /\ NoCallers
    /\ NoRuntime
    /\ NoCtl

\* BebobAvc::control / status up to the call of transaction(): the command frame
\* is built from the arguments and handed to the FwFcp, or the call returns the
\* build failure.
SessionEnter(fn, ctype, addr, op) ==
    LET c == CommandFrame(ctype, addr, op) IN
    /\ sess.pc = "idle"
    /\ sess' = [sess EXCEPT
                    !.pc = IF c.ok THEN "wait" ELSE "idle",
                    !.cur = [fn |-> fn, addr |-> addr, op |-> op,
                             frame |-> IF c.ok THEN c.frame ELSE <<>>],
                    !.ack = NoAck,
                    !.res = IF c.ok THEN Pending
                            ELSE Failed(MapErr([ok |-> FALSE, err |-> c.err, op |-> op])),
                    !.before = IF sess.cur.fn = "none" THEN FirstCall ELSE Outcome(sess.res)]
    /\ UNCHANGED <<serialVars, concVars, rtVars, ctlVars>>

\* transaction() returns outcome o, and r is what control / status make of it.
SessionLeave(o, r) ==
    /\ sess' = [sess EXCEPT !.pc = "idle",
                            !.ack = o.tr,
                            !.res = IF r.ok THEN Ok(0, r.op) ELSE Failed(r),
                            !.dev = o.dev]
    /\ UNCHANGED <<serialVars, concVars, rtVars, ctlVars>>

session_control(addr, op) ==
    /\ op \in SessionControlOps
    /\ SessionEnter("control", "Control", addr, op)

\* Faulty variant of session_control_return: the instance remembers a failure,
\* and a call that follows a failed call returns that failure again whatever the
\* device answers.
session_control_return_latched ==
    /\ sess.pc = "wait"
    /\ sess.cur.fn = "control"
    /\ \E o \in DeviceOutcomes(sess.dev, sess.cur.frame) :
        SessionLeave(o, IF sess.before.ok
                        THEN BebobControl(sess.cur.addr, sess.cur.op, o.tr)
                        ELSE [ok |-> FALSE, err |-> sess.before.err, avc |-> sess.before.avc,
                              op |-> sess.cur.op])

session_control_return ==
    /\ sess.pc = "wait"
    /\ sess.cur.fn = "control"
    /\ \E o \in DeviceOutcomes(sess.dev, sess.cur.frame) :
        SessionLeave(o, BebobControl(sess.cur.addr, sess.cur.op, o.tr))

session_status(addr, op) ==
    /\ op \in SessionStatusOps
    /\ SessionEnter("status", "Status", addr, op)

session_status_return ==
    /\ sess.pc = "wait"
    /\ sess.cur.fn = "status"
    /\ \E o \in DeviceOutcomes(sess.dev, sess.cur.frame) :
        SessionLeave(o, BebobStatus(sess.cur.addr, sess.cur.op, o.tr))

NextSession ==
    \/ \E op \in SessionControlOps : session_control("Unit", op)
    \/ session_control_return
    \/ \E op \in SessionStatusOps : session_status("Unit", op)
    \/ session_status_return

SpecSession == InitSession /\ [][NextSession]_vars

(***************************************************************************)
(* BebobRuntime: the run loop and the threads that send it events.         *)
(***************************************************************************)
\* The capacity of the channel made by mpsc::sync_channel(32).
CHANNEL_SIZE == 32

\* BebobRuntime::TIMER_NAME.
TIMER_NAME == "metering"

\* How many events wait in the channel while the run loop keeps receiving, and
\* how many lock notifications the sound unit emits.
MaxQueued == 2

MaxNotify == 2

\* enum Event. BusReset's generation and the event mask of Elem are not kept;
\* an element event keeps the name of its element.
Event(kind, name, locked) == [kind |-> kind, name |-> name, locked |-> locked]

Shutdown == Event("Shutdown", "", FALSE)

Disconnected == Event("Disconnected", "", FALSE)

BusReset == Event("BusReset", "", FALSE)

Elem(name) == Event("Elem", name, FALSE)

Timer == Event("Timer", "", FALSE)

StreamLock(locked) == Event("StreamLock", "", locked)

\* The names of the elements that emit events: the metering switch and one of
\* the model's elements.
ElemNames == {TIMER_NAME, "other"}

\* The dispatchers pushed by listen(), in the order of the pushes.
NODE_DISPATCHER_NAME == "node event dispatcher"

SYSTEM_DISPATCHER_NAME == "system event dispatcher"

DispatcherNames == {NODE_DISPATCHER_NAME, SYSTEM_DISPATCHER_NAME}

\* A dispatcher whose event loop runs, its thread between two callbacks.
Running == [loop |-> "running", thread |-> "idle", sigint |-> TRUE]

\* Nothing received yet, and no 'metering' event read yet.
NoLast == [kind |-> "none", name |-> "", model |-> "none", ok |-> TRUE]

NoMeter == [seen |-> FALSE, val |-> FALSE, started |-> FALSE]

\* The runtime after new() and listen(): both dispatchers launched, no timer,
\* the channel empty, the main thread about to enter run().
Listening ==
    /\ channel = <<>>
    /\ dispatchers = <<NODE_DISPATCHER_NAME, SYSTEM_DISPATCHER_NAME>>
    /\ disp = [d \in DispatcherNames |-> Running]
    /\ timer = "None"
    /\ timer_threads = 0
    /\ unit_locked \in BOOLEAN
    /\ lockers = <<>>
    /\ lock_log = <<>>
    /\ last = NoLast
    /\ meter = NoMeter

InitRun ==
    /\ Listening
    /\ main = [pc |-> "run", i |-> 0]
    /\ NoSerialCaller
    /\ NoCallers
    /\ NoSession
    /\ NoCtl

\* A callback of dispatcher d can run: its event loop runs and its thread is
\* not inside another callback.
Dispatching(d) == disp[d].loop = "running" /\ disp[d].thread = "idle"

\* tx.send(ev) while the run loop keeps up with the senders: the event is queued.
Send(ev) ==
    /\ Len(channel) < MaxQueued
    /\ channel' = Append(channel, ev)

\* The callbacks given to attach_alsa_firewire and attach_fw_node.
node_disconnected ==
    /\ Dispatching(NODE_DISPATCHER_NAME)
    /\ Send(Disconnected)
    /\ UNCHANGED <<main, dispatchers, disp, timer, timer_threads, unit_locked, lockers,
                   lock_log, last, meter>>
    /\ UNCHANGED <<serialVars, concVars, sessVars, ctlVars>>

\* The callback given to connect_bus_update.
bus_update ==
    /\ Dispatching(NODE_DISPATCHER_NAME)
    /\ Send(BusReset)
    /\ UNCHANGED <<main, dispatchers, disp, timer, timer_threads, unit_locked, lockers,
                   lock_log, last, meter>>
    /\ UNCHANGED <<serialVars, concVars, sessVars, ctlVars>>

\* The SIGINT handler: it returns Continue(false), so it runs once.
sigint ==
    /\ Dispatching(SYSTEM_DISPATCHER_NAME)
    /\ disp[SYSTEM_DISPATCHER_NAME].sigint
    /\ Send(Shutdown)
    /\ disp' = [disp EXCEPT ![SYSTEM_DISPATCHER_NAME].sigint = FALSE]
    /\ UNCHANGED <<main, dispatchers, timer, timer_threads, unit_locked, lockers,
                   lock_log, last, meter>>
    /\ UNCHANGED <<serialVars, concVars, sessVars, ctlVars>>

\* The callback given to connect_handle_elem_event.
handle_elem_event(name) ==
    /\ Dispatching(SYSTEM_DISPATCHER_NAME)
    /\ Send(Elem(name))
    /\ UNCHANGED <<main, dispatchers, disp, timer, timer_threads, unit_locked, lockers,
                   lock_log, last, meter>>
    /\ UNCHANGED <<serialVars, concVars, sessVars, ctlVars>>

\* The lock state of the unit changes and the callback given to
\* connect_is_locked_notify reads it and spawns a thread that keeps the value.
is_locked_notify ==
    /\ Dispatching(NODE_DISPATCHER_NAME)
    /\ Len(lockers) < MaxNotify
    /\ unit_locked' = ~unit_locked
    /\ lockers' = Append(lockers, [is_locked |-> unit_locked', pc |-> "sleep"])
    /\ UNCHANGED <<channel, main, dispatchers, disp, timer, timer_threads, lock_log,
                   last, meter>>
    /\ UNCHANGED <<serialVars, concVars, sessVars, ctlVars>>

\* A spawned thread has slept its 500 ms and sends the value it keeps. Each
\* thread sleeps on its own: whichever is scheduled first sends first.
stream_lock_send(k) ==
    /\ lockers[k].pc = "sleep"
    /\ Send(StreamLock(lockers[k].is_locked))
    /\ lockers' = [lockers EXCEPT ![k].pc = "done"]
    /\ UNCHANGED <<main, dispatchers, disp, timer, timer_threads, unit_locked,
                   lock_log, last, meter>>
    /\ UNCHANGED <<serialVars, concVars, sessVars, ctlVars>>

\* The callback given to attach_interval_handler, every TIMER_INTERVAL.
interval_handler ==
    /\ timer = "Some"
    /\ Send(Timer)
    /\ UNCHANGED <<main, dispatchers, disp, timer, timer_threads, unit_locked, lockers,
                   lock_log, last, meter>>
    /\ UNCHANGED <<serialVars, concVars, sessVars, ctlVars>>

\* rx.recv() returned Ok(ev) with ev of the given kind.
Received(kind) ==
    /\ main.pc = "run"
    /\ channel # <<>>
    /\ Head(channel).kind = kind
    /\ channel' = Tail(channel)

\* Faulty variant of AfterModel: the model's error is propagated with `?`.
AfterModelPropagated(ok) == IF ok THEN "run" ELSE "returned"

\* Where the main thread is after `let _ = self.model. ...`: the Result is
\* dropped and the loop goes on.
AfterModel(ok) == "run"

\* What the run loop leaves alone whatever the event.
LoopKeeps == UNCHANGED <<dispatchers, disp, unit_locked, lockers>>

\* Event::Shutdown => break, then Ok(()).
run_shutdown ==
    /\ Received("Shutdown")
    /\ main' = [main EXCEPT !.pc = "returned"]
    /\ last' = [kind |-> "Shutdown", name |-> "", model |-> "none", ok |-> TRUE]
    /\ LoopKeeps
    /\ UNCHANGED <<timer, timer_threads, lock_log, meter>>
    /\ UNCHANGED <<serialVars, concVars, sessVars, ctlVars>>

\* Event::Disconnected => break, then Ok(()).
run_disconnected ==
    /\ Received("Disconnected")
    /\ main' = [main EXCEPT !.pc = "returned"]
    /\ last' = [kind |-> "Disconnected", name |-> "", model |-> "none", ok |-> TRUE]
    /\ LoopKeeps
    /\ UNCHANGED <<timer, timer_threads, lock_log, meter>>
    /\ UNCHANGED <<serialVars, concVars, sessVars, ctlVars>>

\* Event::BusReset(generation): the generation is printed.
run_bus_reset ==
    /\ Received("BusReset")
    /\ last' = [kind |-> "BusReset", name |-> "", model |-> "none", ok |-> TRUE]
    /\ LoopKeeps
    /\ UNCHANGED <<main, timer, timer_threads, lock_log, meter>>
    /\ UNCHANGED <<serialVars, concVars, sessVars, ctlVars>>

\* Event::Elem of an element not named TIMER_NAME: dispatch_elem_event of the
\* model, which returns Ok or an error.
run_elem_event ==
    /\ Received("Elem")
    /\ Head(channel).name # TIMER_NAME
    /\ \E ok \in BOOLEAN :
        /\ main' = [main EXCEPT !.pc = AfterModel(ok)]
        /\ last' = [kind |-> "Elem", name |-> Head(channel).name,
                    model |-> "dispatch_elem_event", ok |-> ok]
    /\ LoopKeeps
    /\ UNCHANGED <<timer, timer_threads, lock_log, meter>>
    /\ UNCHANGED <<serialVars, concVars, sessVars, ctlVars>>

\* Faulty variant of start_interval_timer: the dispatcher that was in
\* self.timer is leaked, its thread still alive.
start_interval_timer_leaking(ran) ==
    IF ran
    THEN [timer |-> "Some", threads |-> timer_threads + 1]
    ELSE [timer |-> timer, threads |-> timer_threads]

\* start_interval_timer: Dispatcher::run either fails, and `?` returns before
\* self.timer is touched, or gives a dispatcher that is stored in self.timer;
\* the dispatcher the assignment replaces is dropped with its thread.
start_interval_timer(ran) ==
    IF ran
    THEN [timer |-> "Some",
          threads |-> timer_threads + 1 - (IF timer = "Some" THEN 1 ELSE 0)]
    ELSE [timer |-> timer, threads |-> timer_threads]

\* stop_interval_timer: self.timer, if Some, becomes None and the dispatcher is
\* dropped with its thread.
stop_interval_timer ==
    IF timer = "Some"
    THEN [timer |-> "None", threads |-> timer_threads - 1]
    ELSE [timer |-> timer, threads |-> timer_threads]

\* Event::Elem of the element named TIMER_NAME: its value is read from the card;
\* if that succeeds, true starts the interval timer and false stops it.
run_metering ==
    /\ Received("Elem")
    /\ Head(channel).name = TIMER_NAME
    /\ \E readable \in BOOLEAN, val \in BOOLEAN, ran \in BOOLEAN :
        LET t == IF ~readable THEN [timer |-> timer, threads |-> timer_threads]
                 ELSE IF val THEN start_interval_timer(ran)
                 ELSE stop_interval_timer
        IN
        /\ readable => (val \/ ~ran)
        /\ ~readable => (~val /\ ~ran)
        /\ timer' = t.timer
        /\ timer_threads' = t.threads
        /\ meter' = IF readable THEN [seen |-> TRUE, val |-> val, started |-> ran]
                    ELSE meter
        /\ last' = [kind |-> "Elem", name |-> TIMER_NAME, model |-> "none",
                    ok |-> readable]
    /\ LoopKeeps
    /\ UNCHANGED <<main, lock_log>>
    /\ UNCHANGED <<serialVars, concVars, sessVars, ctlVars>>

\* Event::Timer: measure_elems of the model, which returns Ok or an error.
run_timer ==
    /\ Received("Timer")
    /\ \E ok \in BOOLEAN :
        /\ main' = [main EXCEPT !.pc = AfterModel(ok)]
        /\ last' = [kind |-> "Timer", name |-> "", model |-> "measure_elems", ok |-> ok]
    /\ LoopKeeps
    /\ UNCHANGED <<timer, timer_threads, lock_log, meter>>
    /\ UNCHANGED <<serialVars, concVars, sessVars, ctlVars>>

\* Event::StreamLock(locked): dispatch_stream_lock of the model, which returns
\* Ok or an error.
run_stream_lock ==
    /\ Received("StreamLock")
    /\ \E ok \in BOOLEAN :
        /\ main' = [main EXCEPT !.pc = AfterModel(ok)]
        /\ last' = [kind |-> "StreamLock", name |-> "",
                    model |-> "dispatch_stream_lock", ok |-> ok]
    /\ lock_log' = Append(lock_log, Head(channel).locked)
    /\ LoopKeeps
    /\ UNCHANGED <<timer, timer_threads, meter>>
    /\ UNCHANGED <<serialVars, concVars, sessVars, ctlVars>>

\* rx.recv() returned Err(_): continue.
run_recv_error ==
    /\ main.pc = "run"
    /\ channel = <<>>
    /\ last' = [kind |-> "RecvError", name |-> "", model |-> "none", ok |-> FALSE]
    /\ LoopKeeps
    /\ UNCHANGED <<channel, main, timer, timer_threads, lock_log, meter>>
    /\ UNCHANGED <<serialVars, concVars, sessVars, ctlVars>>

NextRun ==
    \/ node_disconnected
    \/ bus_update
    \/ sigint
    \/ \E name \in ElemNames : handle_elem_event(name)
    \/ is_locked_notify
    \/ \E k \in 1..Len(lockers) : stream_lock_send(k)
    \/ interval_handler
    \/ run_shutdown
    \/ run_disconnected
    \/ run_bus_reset
    \/ run_elem_event
    \/ run_metering
    \/ run_timer
    \/ run_stream_lock
    \/ run_recv_error

SpecRun == InitRun /\ [][NextRun]_vars

(***************************************************************************)
(* BebobRuntime: Drop, and the dispatcher threads meanwhile.               *)
(***************************************************************************)
TIMER_DISPATCHER_NAME == "interval timer dispatcher"

\* How many events one thread sends while the runtime is dropped.
MaxSends == 2

\* The events left in the channel when drop() begins: none, or the channel full
\* or one short of full.
Backlogs == {0, CHANNEL_SIZE - 1, CHANNEL_SIZE}

\* The event a callback of the dispatcher sends.
EventOf(d) ==
    IF d = NODE_DISPATCHER_NAME THEN BusReset
    ELSE IF d = SYSTEM_DISPATCHER_NAME THEN Elem("other")
    ELSE Timer

\* The dispatcher threads alive with the given self.timer.
ThreadsOf(tm) == DispatcherNames \cup (IF tm = "Some" THEN {TIMER_DISPATCHER_NAME} ELSE {})

\* A dispatcher whose event loop runs, its thread between two callbacks or
\* blocked in tx.send of a callback.
RunningThread(d, blocked) ==
    [loop |-> "running", thread |-> IF blocked THEN "sending" ELSE "idle", sigint |-> TRUE,
     sent |-> 0]

\* The runtime when drop() is entered: run() is over, the dispatchers still run,
\* and a thread is blocked in tx.send only if the channel is full.
InitDrop ==
    /\ main = [pc |-> "stop", i |-> 1]
    /\ dispatchers = <<NODE_DISPATCHER_NAME, SYSTEM_DISPATCHER_NAME>>
    /\ \E n \in Backlogs, tm \in {"None", "Some"} :
        /\ channel = [k \in 1..n |-> Elem("other")]
        /\ timer = tm
        /\ timer_threads = IF tm = "Some" THEN 1 ELSE 0
        /\ \E blocked \in SUBSET ThreadsOf(tm) :
            /\ blocked # {} => n = CHANNEL_SIZE
            /\ disp = [d \in ThreadsOf(tm) |-> RunningThread(d, d \in blocked)]
    /\ unit_locked = FALSE
    /\ lockers = <<>>
    /\ lock_log = <<>>
    /\ last = NoLast
    /\ meter = NoMeter
    /\ NoSerialCaller
    /\ NoCallers
    /\ NoSession
    /\ NoCtl

\* What a step of drop() or of a dispatcher thread leaves alone.
DropKeeps ==
    /\ UNCHANGED <<unit_locked, lockers, lock_log, last, meter>>
    /\ UNCHANGED <<serialVars, concVars, sessVars, ctlVars>>

\* The event loop of dispatcher d runs one of its callbacks, which reaches
\* tx.send.
dispatcher_callback(d) ==
    /\ d \in DOMAIN disp
    /\ disp[d].loop = "running"
    /\ disp[d].thread = "idle"
    /\ disp[d].sent < MaxSends
    /\ disp' = [disp EXCEPT ![d].thread = "sending"]
    /\ UNCHANGED <<channel, main, dispatchers, timer, timer_threads>>
    /\ DropKeeps

\* tx.send of the callback returns: the channel had or got room for the event.
dispatcher_send(d) ==
    /\ d \in DOMAIN disp
    /\ disp[d].thread = "sending"
    /\ Len(channel) < CHANNEL_SIZE
    /\ channel' = Append(channel, EventOf(d))
    /\ disp' = [disp EXCEPT ![d].thread = "idle", ![d].sent = @ + 1]
    /\ UNCHANGED <<main, dispatchers, timer, timer_threads>>
    /\ DropKeeps

\* The thread of a stopped dispatcher, back from its callback, leaves the event
\* loop and ends.
dispatcher_exit(d) ==
    /\ d \in DOMAIN disp
    /\ disp[d].loop = "stopped"
    /\ disp[d].thread = "idle"
    /\ disp' = [disp EXCEPT ![d].thread = "exited"]
    /\ UNCHANGED <<channel, main, dispatchers, timer, timer_threads>>
    /\ DropKeeps

\* Faulty variant of AfterStop: the queue is not consumed.
AfterStopWithoutDrain == "clear"

\* What drop() does after the loop of stop(): it consumes the queue.
AfterStop == "drain"

\* for dispatcher in &mut self.dispatchers { dispatcher.stop() }: one iteration.
\* The event loop of the dispatcher is told to quit: it runs no further callback.
drop_stop ==
    /\ main.pc = "stop"
    /\ disp' = [disp EXCEPT ![dispatchers[main.i]].loop = "stopped"]
    /\ main' = IF main.i < Len(dispatchers) THEN [main EXCEPT !.i = @ + 1]
               ELSE [pc |-> AfterStop, i |-> 0]
    /\ UNCHANGED <<channel, dispatchers, timer, timer_threads>>
    /\ DropKeeps

\* for _ in self.rx.try_iter() {}: try_recv gives an event, which is dropped.
drop_drain ==
    /\ main.pc = "drain"
    /\ channel # <<>>
    /\ channel' = Tail(channel)
    /\ UNCHANGED <<main, dispatchers, disp, timer, timer_threads>>
    /\ DropKeeps

\* for _ in self.rx.try_iter() {}: try_recv finds the channel empty and the
\* loop ends.
drop_drained ==
    /\ main.pc = "drain"
    /\ channel = <<>>
    /\ main' = [pc |-> "clear", i |-> 1]
    /\ UNCHANGED <<channel, dispatchers, disp, timer, timer_threads>>
    /\ DropKeeps

\* self.dispatchers.clear(): the next dispatcher of the Vec is dropped, which
\* waits for its thread to end; after the last one the Vec is empty.
drop_clear ==
    /\ main.pc = "clear"
    /\ disp[dispatchers[main.i]].thread = "exited"
    /\ disp' = [disp EXCEPT ![dispatchers[main.i]].thread = "joined"]
    /\ IF main.i < Len(dispatchers)
       THEN main' = [main EXCEPT !.i = @ + 1] /\ UNCHANGED dispatchers
       ELSE main' = [pc |-> "dropped", i |-> 0] /\ dispatchers' = <<>>
    /\ UNCHANGED <<channel, timer, timer_threads>>
    /\ DropKeeps

\* After drop() the fields are dropped in the order of their declaration: rx,
\* which makes every tx.send return an error, then tx, dispatchers and timer,
\* whose dispatcher is dropped with its thread.
drop_fields ==
    /\ main.pc = "dropped"
    /\ main' = [pc |-> "gone", i |-> 0]
    /\ channel' = <<>>
    /\ timer' = "None"
    /\ timer_threads' = 0
    /\ disp' = [d \in DOMAIN disp |-> [disp[d] EXCEPT !.loop = "stopped", !.thread = "joined"]]
    /\ UNCHANGED dispatchers
    /\ DropKeeps

NextDrop ==
    \/ \E d \in DispatcherNames \cup {TIMER_DISPATCHER_NAME} : dispatcher_callback(d)
    \/ \E d \in DispatcherNames \cup {TIMER_DISPATCHER_NAME} : dispatcher_send(d)
    \/ \E d \in DispatcherNames \cup {TIMER_DISPATCHER_NAME} : dispatcher_exit(d)
    \/ drop_stop
    \/ drop_drain
    \/ drop_drained
    \/ drop_clear
    \/ drop_fields

SpecDrop == InitDrop /\ [][NextDrop]_vars

(***************************************************************************)
(* Control handlers of the runtimes: V3ClkCtl (MOTU), CommonCtl and        *)
(* SpecificCtl of LinkFwModel (OXFW), AudiophileModel (BeBoB).             *)
(***************************************************************************)
\* V3ClkCtl::RATE_NAME, V3ClkCtl::SRC_NAME, CommonCtl::CLK_RATE_NAME and
\* CAPTURE_SOURCE_NAME of loud_model.rs; one more name that no control knows.
RATE_NAME == "sampling-rate"

SRC_NAME == "clock-source"

CLK_RATE_NAME == "sampling-rate"

CAPTURE_SOURCE_NAME == "capture-source"

ElemNamesGiven == {RATE_NAME, SRC_NAME, CAPTURE_SOURCE_NAME, "unknown"}

\* Result<bool, Error> and Result<(), Error>: the error is named after the call
\* that produced it.
OkBool(b) == [ok |-> TRUE, handled |-> b, err |-> ""]

ErrOf(e) == [ok |-> FALSE, handled |-> FALSE, err |-> e]

Unset == [ok |-> FALSE, handled |-> FALSE, err |-> "unset"]

\* A handler entered with its arguments, at the given position.
NewCall(fn, elem, val, at, ret) ==
    [fn |-> fn, elem |-> elem, val |-> val, pc |-> at, prev_src |-> 0, freq |-> 0,
     dir |-> "start", pos |-> 0, i |-> 0, handled_by |-> 0, inner |-> Unset, ret |-> ret]

NoHandler == NewCall("none", "", 0, "idle", Unset)

\* One more entry in the record of what the handler did: the call, its argument
\* (or the value it read), whether it returned Ok, and whether the handler held
\* the lock of the unit when it made it.
Log(op, arg, ok) == Append(wire, [op |-> op, arg |-> arg, ok |-> ok, held |-> lock = "self"])

\* The handler returns r.
Return(r) == call' = [call EXCEPT !.pc = "idle", !.ret = r]

\* ElemValueAccessor::<u32>::get_val(new, closure)?; Ok(true): the error of the
\* closure, or Ok(true).
AfterGetVal(inner) == IF inner.ok THEN OkBool(TRUE) ELSE inner

\* What a step of a handler leaves alone besides the state of the handlers.
CtlKeeps == UNCHANGED <<serialVars, concVars, sessVars, rtVars>>

\* V3ClkCtl::write up to its first call: the match on the name of the element.
v3_write(elem, val) ==
    /\ call.pc = "idle"
    /\ call' = NewCall("V3ClkCtl::write", elem, val,
                       IF elem = RATE_NAME THEN "lock"
                       ELSE IF elem = SRC_NAME THEN "get_clk_src"
                       ELSE "idle",
                       IF elem \in {RATE_NAME, SRC_NAME} THEN Unset ELSE OkBool(FALSE))
    /\ wire' = <<>>
    /\ UNCHANGED <<ctls, lock, hw, elem_value>>
    /\ CtlKeeps

\* let prev_src = proto.get_clk_src(unit, timeout_ms)?
v3_get_clk_src ==
    /\ call.pc = "get_clk_src"
    /\ \E ok \in BOOLEAN :
        /\ wire' = Log("get_clk_src", hw.clk_src, ok)
        /\ IF ok
           THEN call' = [call EXCEPT !.pc = "lock", !.prev_src = hw.clk_src]
           ELSE Return(ErrOf("get_clk_src"))
    /\ UNCHANGED <<ctls, lock, hw, elem_value>>
    /\ CtlKeeps

\* Where a handler goes on once unit.lock() returned Ok.
AfterLock ==
    IF call.fn = "V3ClkCtl::write"
    THEN (IF call.elem = RATE_NAME THEN "set_clk_rate" ELSE "set_clk_src")
    ELSE "write_freq"

\* unit.lock()?: the lock is taken, which needs it free, or the call fails and
\* the handler returns that error.
unit_lock ==
    /\ call.pc = "lock"
    /\ \E ok \in BOOLEAN :
        /\ ok => lock = "free"
        /\ wire' = Log("lock", 0, ok)
        /\ IF ok
           THEN lock' = "self" /\ call' = [call EXCEPT !.pc = AfterLock]
           ELSE UNCHANGED lock /\ Return(ErrOf("lock"))
    /\ UNCHANGED <<ctls, hw, elem_value>>
    /\ CtlKeeps

\* Faulty variant of Unlocked: the result is returned with `?` before the unlock.
UnlockedUnlessFailed(inner) == IF inner.ok THEN "free" ELSE "self"

\* The lock after `let _ = unit.unlock(); res`, whatever res is.
Unlocked(inner) == "free"

\* let _ = unit.unlock(); res
unit_unlock ==
    /\ call.pc = "unlock"
    /\ lock' = Unlocked(call.inner)
    /\ wire' = Log("unlock", 0, TRUE)
    /\ Return(AfterGetVal(call.inner))
    /\ UNCHANGED <<ctls, hw, elem_value>>
    /\ CtlKeeps

\* let res = proto.set_clk_rate(unit, val as usize, timeout_ms)
v3_set_clk_rate ==
    /\ call.pc = "set_clk_rate"
    /\ \E ok \in BOOLEAN :
        /\ wire' = Log("set_clk_rate", call.val, ok)
        /\ call' = [call EXCEPT !.pc = "unlock",
                                !.inner = IF ok THEN OkBool(TRUE) ELSE ErrOf("set_clk_rate")]
    /\ UNCHANGED <<ctls, lock, hw, elem_value>>
    /\ CtlKeeps

\* Faulty variant of AfterSetClkSrc: the display is updated whatever
\* set_clk_src returned.
AfterSetClkSrcAlways(ok) == IF ctls.has_lcd THEN "update_clk_display" ELSE "unlock"

\* if res.is_ok() && O::HAS_LCD
AfterSetClkSrc(ok) == IF ok /\ ctls.has_lcd THEN "update_clk_display" ELSE "unlock"

\* let mut res = proto.set_clk_src(unit, val as usize, timeout_ms)
v3_set_clk_src ==
    /\ call.pc = "set_clk_src"
    /\ \E ok \in BOOLEAN :
        /\ wire' = Log("set_clk_src", call.val, ok)
        /\ hw' = IF ok THEN [hw EXCEPT !.clk_src = call.val] ELSE hw
        /\ call' = [call EXCEPT !.pc = AfterSetClkSrc(ok),
                                !.inner = IF ok THEN OkBool(TRUE) ELSE ErrOf("set_clk_src")]
    /\ UNCHANGED <<ctls, lock, elem_value>>
    /\ CtlKeeps

\* res = proto.update_clk_display(unit, &label, timeout_ms), the label being the
\* one of CLK_SRCS[val].
v3_update_clk_display ==
    /\ call.pc = "update_clk_display"
    /\ \E ok \in BOOLEAN :
        /\ wire' = Log("update_clk_display", call.val, ok)
        /\ call' = [call EXCEPT !.pc = IF ok THEN "unlock" ELSE "restore",
                                !.inner = IF ok THEN OkBool(TRUE)
                                          ELSE ErrOf("update_clk_display")]
    /\ UNCHANGED <<ctls, lock, hw, elem_value>>
    /\ CtlKeeps

\* if res.is_err() { let _ = proto.set_clk_src(unit, prev_src, timeout_ms); }
v3_restore_clk_src ==
    /\ call.pc = "restore"
    /\ \E ok \in BOOLEAN :
        /\ wire' = Log("set_clk_src", call.prev_src, ok)
        /\ hw' = IF ok THEN [hw EXCEPT !.clk_src = call.prev_src] ELSE hw
    /\ call' = [call EXCEPT !.pc = "unlock"]
    /\ UNCHANGED <<ctls, lock, elem_value>>
    /\ CtlKeeps

\* Another user of the sound unit, the kernel streaming for one, takes or
\* releases the lock.
locked_elsewhere ==
    /\ lock = "free"
    /\ lock' = "other"
    /\ UNCHANGED <<ctls, call, wire, hw, elem_value>>
    /\ CtlKeeps

unlocked_elsewhere ==
    /\ lock = "other"
    /\ lock' = "free"
    /\ UNCHANGED <<ctls, call, wire, hw, elem_value>>
    /\ CtlKeeps

\* CompoundAm824Stream: the sampling rate and the rest of the format.
FmtEntry(freq, fmt) == [freq |-> freq, entries |-> fmt]

\* What detect_stream_formats left in output_fmt_entries or input_fmt_entries:
\* nothing (no plug in that direction), two rates of one format, or one entry.
FmtEntryChoices ==
    {<<>>, <<FmtEntry(44100, "A"), FmtEntry(48000, "A")>>, <<FmtEntry(48000, "B")>>}

RECURSIVE SortedSeq(_)
SortedSeq(S) ==
    IF S = {} THEN <<>>
    ELSE LET m == CHOOSE x \in S : \A y \in S : x <= y IN <<m>> \o SortedSeq(S \ {m})

\* CommonCtl::load: the rates of both lists, each once, sorted.
SupportedRates(output, input) ==
    SortedSeq({output[k].freq : k \in DOMAIN output} \cup {input[k].freq : k \in DOMAIN input})

\* The stream format the device reports for a plug: a compound AM824 stream of
\* one of the formats, or a stream of another kind.
ReportedFormats == {"A", "B", "not compound"}

\* The list of write_freq_for_enhanced_mode: input_fmt_entries for Input,
\* output_fmt_entries otherwise.
EntriesOf(dir) == IF dir = "Input" THEN ctls.input_fmt_entries ELSE ctls.output_fmt_entries

\* The commands of write_freq, per direction.
SignalFormatControl(dir) ==
    IF dir = "Input" THEN "control InputPlugSignalFormat" ELSE "control OutputPlugSignalFormat"

StreamFormatStatus(dir) ==
    IF dir = "Input" THEN "status ExtendedStreamFormatSingle Input"
    ELSE "status ExtendedStreamFormatSingle Output"

StreamFormatControl(dir) ==
    IF dir = "Input" THEN "control ExtendedStreamFormatSingle Input"
    ELSE "control ExtendedStreamFormatSingle Output"

\* Faulty variant of DirectionAfter: the input direction comes first.
DirectionAfterInputFirst(d) ==
    IF d = "start" /\ Len(ctls.input_fmt_entries) > 0 THEN "Input"
    ELSE IF d \in {"start", "Input"} /\ Len(ctls.output_fmt_entries) > 0 THEN "Output"
    ELSE "none"

\* write_freq: the direction changed after d ("start": none yet): Output when
\* output_fmt_entries is not empty, then Input when input_fmt_entries is not.
DirectionAfter(d) ==
    IF d = "start" /\ Len(ctls.output_fmt_entries) > 0 THEN "Output"
    ELSE IF d \in {"start", "Output"} /\ Len(ctls.input_fmt_entries) > 0 THEN "Input"
    ELSE "none"

\* write_freq goes on after direction d: to the next direction in the mode of
\* the control, or to its Ok(()).
Proceed(d, freq) ==
    LET n == DirectionAfter(d) IN
    call' = [call EXCEPT !.freq = freq,
                         !.dir = n,
                         !.pc = IF n = "none" THEN "unlock"
                                ELSE IF ctls.assumed THEN "fallback"
                                ELSE "enhanced_status",
                         !.inner = IF n = "none" THEN OkBool(TRUE) ELSE Unset]

\* write_freq returns an error through `?`, back in the closure of write.
Fail(e) == call' = [call EXCEPT !.pc = "unlock", !.inner = ErrOf(e)]

\* CommonCtl::write up to its first call: the match on the name of the element.
common_write(elem, val) ==
    /\ call.pc = "idle"
    /\ call' = NewCall("CommonCtl::write", elem, val,
                       IF elem = CLK_RATE_NAME THEN "lock" ELSE "idle",
                       IF elem = CLK_RATE_NAME THEN Unset ELSE OkBool(FALSE))
    /\ wire' = <<>>
    /\ UNCHANGED <<ctls, lock, hw, elem_value>>
    /\ CtlKeeps

\* write_freq: the check of the index and the rate at the index.
common_write_freq ==
    /\ call.pc = "write_freq"
    /\ IF call.val >= Len(ctls.supported_rates)
       THEN Fail("Invalid value for index of sampling rate")
       ELSE Proceed("start", ctls.supported_rates[call.val + 1])
    /\ UNCHANGED <<ctls, lock, wire, hw, elem_value>>
    /\ CtlKeeps

\* write_freq_for_fallback_mode for the direction reached.
common_fallback ==
    /\ call.pc = "fallback"
    /\ \E ok \in BOOLEAN :
        /\ wire' = Log(SignalFormatControl(call.dir), call.freq, ok)
        /\ IF ok THEN Proceed(call.dir, call.freq) ELSE Fail(SignalFormatControl(call.dir))
    /\ UNCHANGED <<ctls, lock, hw, elem_value>>
    /\ CtlKeeps

\* write_freq_for_enhanced_mode up to its control: the status of the current
\* format, and the entry with the rate asked for and that format.
common_enhanced_status ==
    /\ call.pc = "enhanced_status"
    /\ \E ok \in BOOLEAN, fmt \in ReportedFormats :
        LET wanted == FmtEntry(call.freq, fmt) IN
        /\ ~ok => fmt = "not compound"
        /\ wire' = Log(StreamFormatStatus(call.dir), call.freq, ok)
        /\ IF ~ok THEN Fail(StreamFormatStatus(call.dir))
           ELSE IF fmt = "not compound"
           THEN Fail("Compound AM824 stream formats are not available")
           ELSE IF ~HasPosition(EntriesOf(call.dir), wanted)
           THEN Fail("Stream format entry is not found")
           ELSE call' = [call EXCEPT !.pc = "enhanced_control",
                                     !.pos = Position(EntriesOf(call.dir), wanted)]
    /\ UNCHANGED <<ctls, lock, hw, elem_value>>
    /\ CtlKeeps

\* write_freq_for_enhanced_mode: the control with the entry found.
common_enhanced_control ==
    /\ call.pc = "enhanced_control"
    /\ \E ok \in BOOLEAN :
        /\ wire' = Log(StreamFormatControl(call.dir), Nth(EntriesOf(call.dir), call.pos).freq, ok)
        /\ IF ok THEN Proceed(call.dir, call.freq) ELSE Fail(StreamFormatControl(call.dir))
    /\ UNCHANGED <<ctls, lock, hw, elem_value>>
    /\ CtlKeeps

\* SpecificCtl::SRCS of loud_model.rs.
SRCS == <<"Analog", "Digital">>

\* SRCS.iter().position(|src| src.eq(&src)): the parameter of the closure hides
\* the variable that holds what the device reported, so each element is compared
\* with itself.
PositionOfItself(list) ==
    CHOOSE i \in {k \in 0..(Len(list) - 1) : list[k + 1] = list[k + 1]} :
        \A j \in {k \in 0..(Len(list) - 1) : list[k + 1] = list[k + 1]} : i <= j

\* SpecificCtl::read: for the capture source, the source is read from the
\* device, the position computed is stored in the element, and Ok(true).
specific_read(elem) ==
    /\ call.pc = "idle"
    /\ \E ok \in BOOLEAN :
        LET named == elem = CAPTURE_SOURCE_NAME IN
        /\ ~named => ok
        /\ call' = NewCall("SpecificCtl::read", elem, 0, "idle",
                           IF ~named THEN OkBool(FALSE)
                           ELSE IF ok THEN OkBool(TRUE)
                           ELSE ErrOf("read_input_source"))
        /\ wire' = IF named THEN <<[op |-> "read_input_source",
                                    arg |-> Position(SRCS, hw.input_source),
                                    ok |-> ok, held |-> lock = "self"]>>
                   ELSE <<>>
        /\ elem_value' = IF named /\ ok THEN <<PositionOfItself(SRCS)>> ELSE elem_value
    /\ UNCHANGED <<ctls, lock, hw>>
    /\ CtlKeeps

\* SpecificCtl::write: for the capture source, the source at the index given is
\* written to the device; an index outside SRCS is refused.
specific_write(elem, val) ==
    /\ call.pc = "idle"
    /\ \E ok \in BOOLEAN :
        LET named == elem = CAPTURE_SOURCE_NAME
            sends == named /\ HasNth(SRCS, val)
        IN
        /\ ~sends => ok
        /\ call' = NewCall("SpecificCtl::write", elem, val, "idle",
                           IF ~named THEN OkBool(FALSE)
                           ELSE IF ~HasNth(SRCS, val)
                           THEN ErrOf("Invalid value for index of signal source")
                           ELSE IF ok THEN OkBool(TRUE)
                           ELSE ErrOf("write_input_source"))
        /\ wire' = IF sends THEN <<[op |-> "write_input_source", arg |-> val,
                                   ok |-> ok, held |-> lock = "self"]>>
                   ELSE <<>>
        /\ hw' = IF sends /\ ok THEN [hw EXCEPT !.input_source = Nth(SRCS, val)] ELSE hw
    /\ UNCHANGED <<ctls, lock, elem_value>>
    /\ CtlKeeps

\* AudiophileModel::write: the write functions of its controls, in the order of
\* the chain of `if`s.
AudiophileWrites ==
    <<"clk_ctl.write_freq", "clk_ctl.write_src", "meter_ctl.write_meter",
      "phys_input_ctl.write_level", "phys_input_ctl.write_balance",
      "aux_src_ctl.write_level", "aux_output_ctl.write_level",
      "phys_output_ctl.write_level", "phys_output_ctl.write_selector",
      "hp_ctl.write_level", "hp_ctl.write_selector", "mixer_ctl.write_src_state">>

\* The elements given to AudiophileModel::write, each named after the function
\* that handles it, and an element that none of the controls handles.
AudiophileElems == {AudiophileWrites[k] : k \in DOMAIN AudiophileWrites} \cup {"unknown"}

\* The arm taken when the k-th function returned Ok(true): Ok(true), except
\* after hp_ctl.write_level, whose arm is Ok(false).
ArmOf(k) == IF AudiophileWrites[k] = "hp_ctl.write_level" THEN OkBool(FALSE) ELSE OkBool(TRUE)

\* AudiophileModel::write is entered.
audiophile_write(elem) ==
    /\ call.pc = "idle"
    /\ call' = [NewCall("AudiophileModel::write", elem, 0, "chain", Unset) EXCEPT !.i = 1]
    /\ wire' = <<>>
    /\ UNCHANGED <<ctls, lock, hw, elem_value>>
    /\ CtlKeeps

\* The next function of the chain is called: it returns Ok(false) for an element
\* of another control, and Ok(true) or an error for its own. `?` returns the
\* error, Ok(true) takes the arm, and after the last Ok(false) comes the final
\* `else`.
audiophile_write_next ==
    /\ call.pc = "chain"
    /\ \E ok \in BOOLEAN :
        LET k == call.i
            own == AudiophileWrites[k] = call.elem
        IN
        /\ ~own => ok
        /\ wire' = Log(AudiophileWrites[k], 0, ok)
        /\ IF ~ok THEN Return(ErrOf(AudiophileWrites[k]))
           ELSE IF own
           THEN call' = [call EXCEPT !.pc = "idle", !.ret = ArmOf(k), !.handled_by = k]
           ELSE IF k < Len(AudiophileWrites)
           THEN call' = [call EXCEPT !.i = k + 1]
           ELSE Return(OkBool(FALSE))
    /\ UNCHANGED <<ctls, lock, hw, elem_value>>
    /\ CtlKeeps

\* The controls after their load, the unit unlocked, no handler called yet.
InitCtl ==
    /\ \E lcd \in BOOLEAN, assumed \in BOOLEAN,
          output \in FmtEntryChoices, input \in FmtEntryChoices :
        ctls = [has_lcd |-> lcd,
                output_fmt_entries |-> output,
                input_fmt_entries |-> input,
                supported_rates |-> SupportedRates(output, input),
                assumed |-> assumed]
    /\ call = NoHandler
    /\ lock = "free"
    /\ wire = <<>>
    /\ hw \in {[clk_src |-> s, input_source |-> "Analog"] : s \in 0..1}
    /\ elem_value = <<>>
    /\ NoSerialCaller
    /\ NoCallers
    /\ NoSession
    /\ NoRuntime

NextCtl ==
    \/ \E elem \in ElemNamesGiven, val \in 0..1 : v3_write(elem, val)
    \/ v3_get_clk_src
    \/ unit_lock
    \/ unit_unlock
    \/ v3_set_clk_rate
    \/ v3_set_clk_src
    \/ v3_update_clk_display
    \/ v3_restore_clk_src
    \/ locked_elsewhere
    \/ unlocked_elsewhere
    \/ \E elem \in ElemNamesGiven, val \in 0..2 : common_write(elem, val)
    \/ common_write_freq
    \/ common_fallback
    \/ common_enhanced_status
    \/ common_enhanced_control
    \/ \E elem \in ElemNamesGiven : specific_read(elem)
    \/ \E elem \in ElemNamesGiven, val \in 0..2 : specific_write(elem, val)
    \/ \E elem \in AudiophileElems : audiophile_write(elem)
    \/ audiophile_write_next

SpecCtl == InitCtl /\ [][NextCtl]_vars

(***************************************************************************)
(* Properties.                                                             *)
(***************************************************************************)
\* What the last transaction of the operation returned.
LastAck == acks[Len(acks)]

\* The operation has returned, and its last transaction returned a response
\* frame for the address and the opcode of its command.
ReturnedOnMatchingFrame ==
    /\ pc = "idle"
    /\ Len(acks) > 0
    /\ LastAck.kind = "frame"
    /\ LastAck.addr = cur.addr
    /\ LastAck.opcode = cur.op.opcode

QuirkOpcodes == {"InputPlugSignalFormat", "OutputPlugSignalFormat", "SignalSource"}

\* The response code of frame a is one control takes for opcode: Accepted (0x9),
\* or the reserved code 0x0 for the three quirk opcodes.
TakenByControl(opcode, a) == a.code = 9 \/ (a.code = 0 /\ opcode \in QuirkOpcodes)

\* C1: a control call that got a response frame for its address and opcode
\* fails with RespParse(UnexpectedStatus) exactly when the response code is
\* neither Accepted nor, for InputPlugSignalFormat, OutputPlugSignalFormat and
\* SignalSource, Reserved(0x00); otherwise the response is taken and the call
\* succeeds when the operand structure parses the operands.
C1_ControlAcceptancePolicy ==
    (ReturnedOnMatchingFrame /\ cur.ctype = "Control") =>
        IF TakenByControl(cur.op.opcode, LastAck)
        THEN /\ res.avc.cause # "UnexpectedStatus"
             /\ res.ok <=> LastAck.wellformed
        ELSE /\ ~res.ok
             /\ res.avc = RespParse("UnexpectedStatus")

C1_Witness ==
    /\ ReturnedOnMatchingFrame
    /\ cur.fn = "control"
    /\ cur.op.opcode = "SignalSource"
    /\ LastAck.code = 0
    /\ res.ok

\* The operations that take an index, and the table each checks it against.
IndexedFns ==
    {"write_clk_freq", "write_clk_src", "read_level", "write_level", "read_lr_balance",
     "write_lr_balance", "read_mute", "write_mute", "read_selector", "write_selector"}

TableLen(fn) ==
    CASE fn = "write_clk_freq" -> Len(FREQ_LIST(impl))
      [] fn = "write_clk_src" -> Len(SRC_LIST(impl))
      [] fn \in {"read_selector", "write_selector"} -> Len(FUNC_BLOCK_ID_LIST(impl))
      [] OTHER -> Len(ENTRIES(impl))

\* The call in cur was given an index (or, for write_selector, a value index)
\* outside its table.
IndexOutOfTable ==
    /\ cur.fn \in IndexedFns
    /\ \/ cur.idx >= TableLen(cur.fn)
       \/ cur.fn = "write_selector" /\ cur.val >= Len(INPUT_PLUG_ID_LIST(impl))

\* C2: an indexed read or a write called with an index at or beyond the length
\* of its table returns the invalid-argument error at once: no command frame is
\* handed to the transport and no transaction takes place.
C2_InvalidIndexRefused ==
    IndexOutOfTable =>
        /\ pc = "idle"
        /\ ~res.ok
        /\ ErrorKind(res.err) = FileErrorInval
        /\ sent = <<>>
        /\ acks = <<>>

C2_Witness ==
    /\ cur.fn = "write_level"
    /\ cur.idx = Len(ENTRIES(impl))
    /\ res.err = FileErrorInval
    /\ sent = <<>>

\* The control command that sets the AMDTP format of unit plug 0 to freq.
PlugFormatFrame(opcode, freq) ==
    [ctype |-> "Control", addr |-> "Unit", opcode |-> opcode,
     operands |-> [shape |-> "PlugSignalFormat", plug_id |-> 0, fmt |-> "AMDTP",
                   fdf |-> <<Position(SfcFreqs, freq), 255, 255>>]]

ValidWriteClkFreq == cur.fn = "write_clk_freq" /\ cur.idx < Len(FREQ_LIST(impl))

\* The transaction of the k-th command returned a frame that control takes.
AckTaken(k) ==
    /\ Len(acks) >= k
    /\ acks[k].kind = "frame"
    /\ acks[k].addr = sent[k].addr
    /\ acks[k].opcode = sent[k].opcode
    /\ TakenByControl(sent[k].opcode, acks[k])
    /\ acks[k].wellformed

\* C3: write_clk_freq with a valid index sends InputPlugSignalFormat for unit
\* input plug 0 first and OutputPlugSignalFormat for unit output plug 0 second,
\* both with the frequency FREQ_LIST[idx] and nothing else; the second is sent
\* only after the first has been answered and taken, and the operation returns
\* Ok only after both have been.
C3_WriteClkFreqOrder ==
    ValidWriteClkFreq =>
        LET freq == FREQ_LIST(impl)[cur.idx + 1]
            first == PlugFormatFrame("InputPlugSignalFormat", freq)
            second == PlugFormatFrame("OutputPlugSignalFormat", freq)
        IN /\ sent \in {<<first>>, <<first, second>>}
           /\ Len(sent) = 2 => AckTaken(1)
           /\ (pc = "idle" /\ res.ok) => (Len(sent) = 2 /\ AckTaken(1) /\ AckTaken(2))

C3_Witness ==
    /\ ValidWriteClkFreq
    /\ pc = "idle"
    /\ res.ok
    /\ Len(sent) = 2
    /\ sent[1].opcode = "InputPlugSignalFormat"
    /\ sent[2].opcode = "OutputPlugSignalFormat"

\* The error a caller gets for what transaction k returned, when it is not taken.
ErrorOfAck(k) == IF acks[k].kind = "error" THEN acks[k].cause ELSE FileErrorIo

\* C4: when the first control of write_clk_freq fails, the second command is
\* not sent and that error is returned; when the first is taken and the second
\* fails, the error of the second is returned, no third command is sent, and
\* the device keeps the input plug format the first command set.
C4_WriteClkFreqNoRollback ==
    (ValidWriteClkFreq /\ pc = "idle") =>
        /\ ~AckTaken(1) =>
            /\ Len(sent) = 1
            /\ Len(acks) = 1
            /\ ~res.ok
            /\ res.err = ErrorOfAck(1)
        /\ (AckTaken(1) /\ ~AckTaken(2)) =>
            /\ Len(sent) = 2
            /\ Len(acks) = 2
            /\ ~res.ok
            /\ res.err = ErrorOfAck(2)
            /\ dev.freqIn = FREQ_LIST(impl)[cur.idx + 1]

C4_Witness ==
    /\ ValidWriteClkFreq
    /\ pc = "idle"
    /\ AckTaken(1)
    /\ ~AckTaken(2)
    /\ ~res.ok
    /\ Len(sent) = 2
    /\ dev.freqIn # dev.freqOut

\* C5: a control call whose operand structure cannot build its operands returns
\* the command-build failure and hands no command frame to the transport.
C5_BuildFailureSendsNothing ==
    (cur.ctype = "Control" /\ ~cur.op.buildable) =>
        /\ pc = "idle"
        /\ ~res.ok
        /\ res.avc.kind = "CmdBuild"
        /\ sent = <<>>
        /\ acks = <<>>

C5_Witness ==
    /\ cur.fn = "control"
    /\ ~cur.op.buildable
    /\ res.avc.kind = "CmdBuild"
    /\ sent = <<>>

\* C6: every command frame is sent once and answered by one transaction: an
\* operation that has returned made as many transactions as it sent frames, a
\* control call whose command was built made exactly one whatever came back, and
\* an operation sends one frame at most, write_clk_freq two different ones.
C6_OneTransactionPerCommand ==
    /\ pc = "idle" => Len(acks) = Len(sent)
    /\ pc = "wait" => Len(sent) = Len(acks) + 1
    /\ Len(sent) <= (IF cur.fn = "write_clk_freq" THEN 2 ELSE 1)
    /\ Len(sent) = 2 => sent[1] # sent[2]
    /\ (pc = "idle" /\ cur.fn = "control" /\ cur.op.buildable) => Len(sent) = 1

C6_Witness ==
    /\ pc = "idle"
    /\ cur.fn = "control"
    /\ Len(sent) = 1
    /\ Len(acks) = 1
    /\ LastAck.kind = "error"
    /\ ~res.ok

\* C7: a failure of control/status is of one of three kinds, fixed by how far
\* the call got, and reaches the caller as: command-build failure (no frame
\* sent) -> FileError::Inval; communication failure (the transaction failed) ->
\* the transport's error itself; response-parse failure (a frame came back) ->
\* FileError::Io.
C7_ErrorKinds ==
    (pc = "idle" /\ ~res.ok /\ res.avc # NoAvcErr) =>
        /\ cur.ctype \in {"Control", "Status"}
        /\ res.avc.kind \in {"CmdBuild", "CommunicationFailure", "RespParse"}
        /\ res.avc.kind = "CmdBuild" <=> Len(acks) < cur.step
        /\ res.avc.kind = "CmdBuild" => res.err = FileErrorInval
        /\ res.avc.kind = "CommunicationFailure" =>
            /\ LastAck.kind = "error"
            /\ res.err = LastAck.cause
            /\ res.err \in TransportErrors
        /\ res.avc.kind = "RespParse" =>
            /\ LastAck.kind = "frame"
            /\ res.err = FileErrorIo

C7_Witness ==
    /\ pc = "idle"
    /\ cur.fn = "status"
    /\ ~res.ok
    /\ res.avc.kind = "RespParse"
    /\ res.err = FileErrorIo

\* The read operation rd has returned Ok and the last command that changed the
\* device was the one of a successful call of the write operation wr.
ReadAfterWrite(rd, wr) ==
    /\ pc = "idle"
    /\ cur.fn = rd
    /\ res.ok
    /\ lastWrite.fn = wr

\* C8: with a device that stores and reports what is set, read_level(i) after
\* write_level(i, v) returns v, read_lr_balance(i) after write_lr_balance(i, v)
\* returns v, and read_mute(i) after write_mute(i, v) returns v.
C8_FeatureRoundTrip ==
    \A p \in {<<"read_level", "write_level">>, <<"read_lr_balance", "write_lr_balance">>,
              <<"read_mute", "write_mute">>} :
        (ReadAfterWrite(p[1], p[2]) /\ lastWrite.idx = cur.idx) => res.ret = lastWrite.val

C8_Witness ==
    /\ ReadAfterWrite("read_level", "write_level")
    /\ lastWrite.idx = cur.idx
    /\ lastWrite.val = 32767
    /\ res.ret = 32767

\* The zero-based index j is the first one of list that holds the entry at i.
IsFirstIndexOf(list, j, i) ==
    /\ j <= i
    /\ list[j + 1] = list[i + 1]
    /\ \A k \in 0..(j - 1) : list[k + 1] # list[i + 1]

StatusAnswered ==
    /\ pc = "idle"
    /\ cur.ctype = "Status"
    /\ Len(acks) = 1
    /\ acks[1].kind = "frame"
    /\ acks[1].addr = sent[1].addr
    /\ acks[1].opcode = sent[1].opcode
    /\ acks[1].code = 12
    /\ acks[1].wellformed

\* The device reported a frequency: its answer holds a compound AM824 format.
ReportedFreq ==
    /\ StatusAnswered
    /\ cur.fn = "read_clk_freq"
    /\ acks[1].operands.stream_format.kind = "BcoCompoundAm824"

ReportedSrc == StatusAnswered /\ cur.fn = "read_clk_src"

\* The result is the error a panic would be reported as.
Panicked == res.err.domain = "panic"

\* C11: read_clk_freq and read_clk_src return an index below the length of
\* FREQ_LIST / SRC_LIST whose entry is the value in the device's response, or
\* an error; when the device reports a value that is not in the table the
\* error is the not-found one (FileError::Io made by the operation itself), and
\* neither operation panics.
C11_ReadClkIndexInTable ==
    /\ (pc = "idle" /\ cur.fn \in {"read_clk_freq", "read_clk_src"}) =>
        /\ ~Panicked
        /\ res.ok => (ReportedFreq \/ ReportedSrc)
    /\ ReportedFreq =>
        LET freq == acks[1].operands.stream_format.freq IN
        IF HasPosition(FREQ_LIST(impl), freq)
        THEN /\ res.ok
             /\ res.ret < Len(FREQ_LIST(impl))
             /\ FREQ_LIST(impl)[res.ret + 1] = freq
        ELSE /\ ~res.ok
             /\ res.err = FileErrorIo
             /\ res.avc = NoAvcErr
    /\ ReportedSrc =>
        LET src == acks[1].operands.src IN
        IF HasPosition(SRC_LIST(impl), src)
        THEN /\ res.ok
             /\ res.ret < Len(SRC_LIST(impl))
             /\ SRC_LIST(impl)[res.ret + 1] = src
        ELSE /\ ~res.ok
             /\ res.err = FileErrorIo
             /\ res.avc = NoAvcErr

C11_Witness ==
    /\ ReportedFreq
    /\ acks[1].operands.stream_format.freq = 96000
    /\ ~res.ok
    /\ res.err = FileErrorIo
    /\ res.avc = NoAvcErr

ValidReadSelector == cur.fn = "read_selector" /\ cur.idx < Len(FUNC_BLOCK_ID_LIST(impl))

\* The status command that asks function block func_block_id of audio subunit 0
\* for its current input plug.
SelectorQuery(func_block_id) ==
    [ctype |-> "Status", addr |-> "AudioSubunit0", opcode |-> "AudioFunctionBlock",
     operands |-> [shape |-> "AudioSelector", func_block_id |-> func_block_id,
                   ctl_attr |-> "Current", input_plug_id |-> 255]]

\* C12: read_selector(idx) with an index in FUNC_BLOCK_ID_LIST sends one status
\* command, for the current input plug of function block FUNC_BLOCK_ID_LIST[idx];
\* when the response is taken it returns an index of INPUT_PLUG_ID_LIST that
\* holds the reported id, or the not-found error (FileError::Io) when the list
\* does not hold it.  With INPUT_PLUG_ID_LIST = [0x00, 0x02, 0x05] and function
\* block 0x01 at index 0, a reported 0x02 makes read_selector(0) return 1.
C12_ReadSelector ==
    ValidReadSelector =>
        /\ sent = <<SelectorQuery(FUNC_BLOCK_ID_LIST(impl)[cur.idx + 1])>>
        /\ StatusAnswered =>
            LET id == acks[1].operands.input_plug_id IN
            IF HasPosition(INPUT_PLUG_ID_LIST(impl), id)
            THEN /\ res.ok
                 /\ res.ret < Len(INPUT_PLUG_ID_LIST(impl))
                 /\ INPUT_PLUG_ID_LIST(impl)[res.ret + 1] = id
                 /\ (INPUT_PLUG_ID_LIST(impl) = <<0, 2, 5>> /\ id = 2) => res.ret = 1
            ELSE /\ ~res.ok
                 /\ res.err = FileErrorIo
                 /\ res.avc = NoAvcErr

C12_Witness ==
    /\ ValidReadSelector
    /\ StatusAnswered
    /\ INPUT_PLUG_ID_LIST(impl) = <<0, 2, 5>>
    /\ cur.idx = 0
    /\ sent[1].operands.func_block_id = 1
    /\ acks[1].operands.input_plug_id = 2
    /\ res.ok
    /\ res.ret = 1

\* The control command that selects input plug input_plug_id at function block
\* func_block_id of audio subunit 0.
SelectorCommand(func_block_id, input_plug_id) ==
    [ctype |-> "Control", addr |-> "AudioSubunit0", opcode |-> "AudioFunctionBlock",
     operands |-> [shape |-> "AudioSelector", func_block_id |-> func_block_id,
                   ctl_attr |-> "Current", input_plug_id |-> input_plug_id]]

SelectorIndexValid == cur.idx < Len(FUNC_BLOCK_ID_LIST(impl))

InputPlugIndexValid == cur.val < Len(INPUT_PLUG_ID_LIST(impl))

\* C13: write_selector(idx, val) refuses an idx outside FUNC_BLOCK_ID_LIST with
\* the invalid-argument error that names idx, whatever val is, and a val outside
\* INPUT_PLUG_ID_LIST (idx being valid) with the invalid-argument error that
\* names val; in both cases nothing is sent.  When both are valid it sends one
\* control command, which selects INPUT_PLUG_ID_LIST[val] at function block
\* FUNC_BLOCK_ID_LIST[idx].
C13_WriteSelectorChecks ==
    cur.fn = "write_selector" =>
        /\ ~SelectorIndexValid =>
            /\ pc = "idle"
            /\ res = Err(InvalidSelectorIndex(cur.idx), NoOp)
            /\ sent = <<>>
        /\ (SelectorIndexValid /\ ~InputPlugIndexValid) =>
            /\ pc = "idle"
            /\ res = Err(InvalidInputPlugIndex(cur.val), NoOp)
            /\ sent = <<>>
        /\ InvalidSelectorIndex(cur.idx) # InvalidInputPlugIndex(cur.val)
        /\ (SelectorIndexValid /\ InputPlugIndexValid) =>
            sent = <<SelectorCommand(FUNC_BLOCK_ID_LIST(impl)[cur.idx + 1],
                                     INPUT_PLUG_ID_LIST(impl)[cur.val + 1])>>

C13_Witness ==
    /\ cur.fn = "write_selector"
    /\ ~SelectorIndexValid
    /\ ~InputPlugIndexValid
    /\ res.err = InvalidSelectorIndex(cur.idx)
    /\ sent = <<>>

\* The writes that take a 16-bit value.
ValueWrites == {"write_level", "write_lr_balance"}

ValueWriteIndexValid == cur.idx < Len(ENTRIES(impl))

\* The 16 bits of v in two's complement, as an unsigned number.
Bits16(v) == IF v < 0 THEN v + 65536 ELSE v

\* C14: write_level and write_lr_balance with a valid index send one control
\* command whose control value is the Volume / LrBalance variant holding exactly
\* the 16 bits of the value given (big-endian), whatever the value: one above
\* LEVEL_MAX, one that is no multiple of the step, the smallest and the largest
\* 16-bit values alike; the value is neither clamped nor rounded nor refused.
C14_ValuePassedThrough ==
    (cur.fn \in ValueWrites /\ ValueWriteIndexValid) =>
        /\ Len(sent) = 1
        /\ sent[1].ctype = "Control"
        /\ sent[1].operands.ctl.variant =
                (IF cur.fn = "write_level" THEN "Volume" ELSE "LrBalance")
        /\ sent[1].operands.ctl.bytes =
                <<Bits16(cur.val) \div 256, Bits16(cur.val) % 256>>
        /\ I16FromBytes(sent[1].operands.ctl.bytes) = cur.val

C14_Witness ==
    /\ cur.fn = "write_lr_balance"
    /\ ValueWriteIndexValid
    /\ cur.val % BALANCE_STEP # 0
    /\ cur.val = -255
    /\ sent[1].operands.ctl.bytes = <<255, 1>>
    /\ pc = "idle"
    /\ res.ok

\* C15 as stated: write_level with a level above LEVEL_MAX fails with the
\* invalid-argument error before any transaction.
C15_OutOfRangeRefusedAsStated ==
    (cur.fn = "write_level" /\ cur.val > LEVEL_MAX) =>
        /\ pc = "idle"
        /\ ~res.ok
        /\ ErrorKind(res.err) = FileErrorInval
        /\ sent = <<>>
        /\ acks = <<>>

\* C15: write_level and write_lr_balance return the invalid-argument error before
\* any transaction exactly when the index is outside ENTRIES; the value plays no
\* part in it: with a valid index a command is sent for every value, one outside
\* the declared range included, and the call then fails only if its transaction does.
C15_OnlyIndexRefused ==
    cur.fn \in ValueWrites =>
        /\ ~ValueWriteIndexValid =>
            /\ pc = "idle"
            /\ res = Err(FileErrorInval, NoOp)
            /\ sent = <<>>
        /\ ValueWriteIndexValid =>
            /\ Len(sent) = 1
            /\ ErrorKind(res.err) # FileErrorInval
            /\ (pc = "idle" /\ ~res.ok) => (Len(acks) = 1 /\ res.avc # NoAvcErr)

C15_Witness ==
    /\ cur.fn = "write_level"
    /\ ValueWriteIndexValid
    /\ cur.val > LEVEL_MAX
    /\ pc = "idle"
    /\ Len(acks) = 1
    /\ res.ok

\* The operations of the capability traits.
CapabilityFns == IndexedFns \cup {"read_clk_freq", "read_clk_src"}

\* Transaction k returned what its call takes: a well-formed response frame for
\* the address and opcode of command k, with a code control (or status) takes.
AckGood(k) ==
    /\ acks[k].kind = "frame"
    /\ acks[k].addr = sent[k].addr
    /\ acks[k].opcode = sent[k].opcode
    /\ acks[k].wellformed
    /\ IF sent[k].ctype = "Control"
       THEN TakenByControl(sent[k].opcode, acks[k])
       ELSE acks[k].code = 12

FailedAcks == {k \in 1..Len(acks) : ~AckGood(k)}

\* C16: when a transaction of a capability operation fails (the transport fails,
\* or the response is not taken), the operation ends there: it sends no further
\* command, returns an error, and the error is the one of that control/status
\* call (the transport's own error, or FileError::Io for a response that is not
\* taken), not one made by a later table lookup; this holds for the second
\* control of write_clk_freq as for the first.  An operation returns Ok only
\* when every transaction it made returned what its call takes.
C16_NoFailureSwallowed ==
    cur.fn \in CapabilityFns =>
        /\ \A k \in FailedAcks :
            /\ pc = "idle"
            /\ Len(acks) = k
            /\ Len(sent) = k
            /\ ~res.ok
            /\ res.avc.kind \in {"CommunicationFailure", "RespParse"}
            /\ res.err = ErrorOfAck(k)
        /\ (pc = "idle" /\ res.ok) =>
            /\ Len(acks) = (IF cur.fn = "write_clk_freq" THEN 2 ELSE 1)
            /\ FailedAcks = {}

C16_Witness ==
    /\ cur.fn = "read_selector"
    /\ pc = "idle"
    /\ FailedAcks = {1}
    /\ acks[1].kind = "error"
    /\ ~res.ok
    /\ res.err = acks[1].cause

\* The device reported a value that the table of the read operation does not hold.
ReverseLookupFailed ==
    \/ ReportedFreq /\ ~HasPosition(FREQ_LIST(impl), acks[1].operands.stream_format.freq)
    \/ ReportedSrc /\ ~HasPosition(SRC_LIST(impl), acks[1].operands.src)
    \/ /\ StatusAnswered
       /\ cur.fn = "read_selector"
       /\ ~HasPosition(INPUT_PLUG_ID_LIST(impl), acks[1].operands.input_plug_id)

\* Command frame f addresses the hardware entry that the table of operation fn
\* holds at index idx (and, for write_selector, the plug id at index val).
AddressesEntry(f, fn, idx, val) ==
    CASE fn = "write_clk_freq" ->
            /\ f.operands.plug_id = 0
            /\ FreqOfFdf(f.operands.fdf) = FREQ_LIST(impl)[idx + 1]
      [] fn = "write_clk_src" ->
            /\ f.operands.dst = DST(impl)
            /\ f.operands.src = SRC_LIST(impl)[idx + 1]
      [] fn = "read_selector" ->
            f.operands.func_block_id = FUNC_BLOCK_ID_LIST(impl)[idx + 1]
      [] fn = "write_selector" ->
            /\ f.operands.func_block_id = FUNC_BLOCK_ID_LIST(impl)[idx + 1]
            /\ f.operands.input_plug_id = INPUT_PLUG_ID_LIST(impl)[val + 1]
      [] OTHER ->
            <<f.operands.func_block_id, f.operands.audio_ch>> = ENTRIES(impl)[idx + 1]

\* C17: a call whose index is outside the table fails with FileError::Inval; a
\* read whose response holds a value outside the table fails with FileError::Io;
\* the two kinds differ.  A call with an index inside the table addresses, in
\* every command it sends and in whatever state the device and the earlier
\* calls left, the hardware entry the table holds at that index.
C17_LookupFailuresDiffer ==
    /\ IndexOutOfTable => (~res.ok /\ ErrorKind(res.err) = FileErrorInval)
    /\ ReverseLookupFailed => (~res.ok /\ ErrorKind(res.err) = FileErrorIo)
    /\ FileErrorInval # FileErrorIo
    /\ (cur.fn \in IndexedFns /\ ~IndexOutOfTable) =>
        /\ Len(sent) >= 1
        /\ \A k \in 1..Len(sent) : AddressesEntry(sent[k], cur.fn, cur.idx, cur.val)

C17_Witness ==
    /\ ReportedSrc
    /\ acks[1].operands.src = "Unit.Isoc1"
    /\ ReverseLookupFailed
    /\ ~res.ok
    /\ ErrorKind(res.err) = FileErrorIo

\* The number of command frames a step hands to the transport: a step of an idle
\* caller starts an operation, whose frames are all new; a step of a blocked
\* caller adds to the frames of the operation in progress.
NewFrames == IF pc = "idle" THEN Len(sent') ELSE Len(sent') - Len(sent)

\* Every frame sent before this step has had its transaction return, by the end
\* of this step at the latest.
EarlierAnswered == IF pc = "idle" THEN Len(acks) = Len(sent) ELSE Len(acks') = Len(sent)

\* C18: with one caller at a time on the BebobAvc, command frames and responses
\* alternate: a step sends one frame at most; a frame is sent only when the
\* transaction of every earlier frame has returned (with a response or an
\* error of the transport); a transaction returns only for the one frame that is
\* in flight; and there is never more than one frame in flight.
C18_StrictAlternation ==
    [][ /\ NewFrames \in {0, 1}
        /\ NewFrames = 1 => (EarlierAnswered /\ pc' = "wait")
        /\ acks' # acks =>
            \/ acks' = <<>> /\ pc = "idle"
            \/ acks' = Append(acks, acks'[Len(acks')]) /\ Len(sent) = Len(acks) + 1
        /\ Len(sent') - Len(acks') \in {0, 1}
        /\ pc' = "wait" <=> Len(sent') - Len(acks') = 1 ]_vars

C18_Witness ==
    /\ pc = "wait"
    /\ Len(sent) = 2
    /\ Len(acks) = 1
    /\ AckGood(1)
    /\ sent[2] # sent[1]

\* The FwFcp through which caller t sends.
FcpOfCaller(t) == avcs[thr[t].avc].fcp

\* The callers blocked in transaction() on FwFcp f.
BlockedOn(f) == {t \in Callers : thr[t].pc = "wait" /\ FcpOfCaller(t) = f}

\* C19: nothing in the layer makes a call wait for another: a caller that is
\* not in a call itself, on a bound instance, can put a command frame on the bus
\* in every reachable state, also while a transaction of another caller on the
\* same instance is awaiting its response; the frames in flight through an FwFcp
\* are as many as the callers blocked on it, two with two callers.
C19_NoSerialization ==
    /\ \A t \in Callers :
        (thr[t].pc = "idle" /\ bus[FcpOfCaller(t)].node # "none") =>
            ENABLED (/\ \E op \in ControlOps : control_by(t, "Unit", op)
                     /\ thr'[t].pc = "wait"
                     /\ Len(bus'[FcpOfCaller(t)].inflight) =
                            Len(bus[FcpOfCaller(t)].inflight) + 1)
    /\ \A f \in Avcs : Len(bus[f].inflight) = Cardinality(BlockedOn(f))

C19_Witness ==
    /\ thr["t1"].avc = thr["t2"].avc
    /\ thr["t1"].pc = "wait"
    /\ thr["t2"].pc = "wait"
    /\ thr["t1"].cur.fn = "control"
    /\ Len(bus[FcpOfCaller("t1")].inflight) = 2

\* The two callers use different instances, which were bound to different nodes.
OnDifferentDevices ==
    /\ thr["t1"].avc # thr["t2"].avc
    /\ avcs[thr["t1"].avc].node # avcs[thr["t2"].avc].node

\* What the caller of call c gets when the transaction of its command returns
\* tr and no other caller is around.
AloneResult(c, tr) ==
    LET r == IF c.fn = "control"
             THEN BebobControl(c.addr, c.op, tr)
             ELSE BebobStatus(c.addr, c.op, tr)
    IN IF r.ok THEN Ok(0, r.op) ELSE Failed(r)

\* C20: with two instances bound to different devices, every step of a caller
\* leaves the other caller and the other device as they are, whatever the other
\* caller is in the middle of; the result a call returns is an outcome of its own
\* command on the device its instance was bound to; and a device changes only in
\* a step of the caller whose instance was bound to it.  So each device sees the
\* commands of one instance alone, and each result is the one the call would
\* have without the other instance.
C20_InstancesIndependent ==
    [][ OnDifferentDevices =>
          /\ \A t \in Callers :
                thr'[t] # thr[t] =>
                    LET n == avcs[thr[t].avc].node IN
                    /\ n \in Nodes
                    /\ \A u \in Callers \ {t} : thr'[u] = thr[u]
                    /\ \A m \in Nodes \ {n} : devs'[m] = devs[m]
                    /\ IF thr[t].pc = "wait"
                       THEN /\ thr'[t].pc = "idle"
                            /\ \E o \in DeviceOutcomes(devs[n], thr[t].cur.frame) :
                                /\ devs'[n] = o.dev
                                /\ thr'[t].res = AloneResult(thr[t].cur, o.tr)
                       ELSE devs' = devs
          /\ devs' # devs => \E t \in Callers : thr'[t] # thr[t] ]_vars

C20_Witness ==
    /\ OnDifferentDevices
    /\ avcs[thr["t1"].avc].node = "node1"
    /\ avcs[thr["t2"].avc].node = "node2"
    /\ thr["t2"].pc = "wait"
    /\ thr["t2"].cur.fn = "control"
    /\ devs["node2"].src = "Subunit.Music0.Src1"
    /\ thr["t1"].pc = "idle"
    /\ thr["t1"].cur.fn = "status"
    /\ thr["t1"].res.ok
    /\ thr["t1"].res.op.body.src = "Unit.Ext4"
    /\ devs["node1"].src = "Unit.Ext4"

\* The call of the session has returned after its transaction returned.
SessionAnswered == sess.pc = "idle" /\ sess.ack # NoAck

\* The call of the session has returned without a transaction.
SessionNotSent == sess.pc = "idle" /\ sess.cur.fn # "none" /\ sess.ack = NoAck

\* C21: BebobAvc keeps no per-call state.  Whatever the calls before it were and
\* however the call before it ended (Ok, build failure, timeout or disconnection,
\* a response that was not taken), a call on the instance is admitted, sends the
\* command frame of its arguments when the operand can be built, and returns what
\* its arguments and the outcome of its own transaction determine: the result a
\* first call with these arguments and this response has.
C21_NoPerCallState ==
    /\ sess.pc = "idle" =>
        /\ \A op \in SessionControlOps :
            ENABLED (session_control("Unit", op) /\ (sess'.pc = "wait" <=> op.buildable))
        /\ \A op \in SessionStatusOps :
            ENABLED (session_status("Unit", op) /\ sess'.pc = "wait")
    /\ sess.pc = "wait" =>
        sess.cur.frame = ComposeCommandFrame(IF sess.cur.fn = "control" THEN "Control"
                                             ELSE "Status",
                                             sess.cur.addr, sess.cur.op.opcode,
                                             EncodeBody(sess.cur.op.body))
    /\ SessionNotSent =>
        /\ ~sess.cur.op.buildable
        /\ sess.res = Failed(MapErr([ok |-> FALSE, err |-> CmdBuild("InvalidOperands"),
                                     op |-> sess.cur.op]))
    /\ SessionAnswered => sess.res = AloneResult(sess.cur, sess.ack)

C21_Witness ==
    /\ SessionAnswered
    /\ sess.cur.fn = "control"
    /\ sess.before.avc.kind = "CommunicationFailure"
    /\ sess.before.err.code = "Timeout"
    /\ sess.ack.kind = "frame"
    /\ sess.ack.code = 9
    /\ sess.res.ok

ValidWriteClkSrc == cur.fn = "write_clk_src" /\ cur.idx < Len(SRC_LIST(impl))

\* The control command that makes src the signal source of dst.
SetSourceFrame(dst, src) ==
    [ctype |-> "Control", addr |-> "Unit", opcode |-> "SignalSource",
     operands |-> [shape |-> "SignalSource", src |-> src, dst |-> dst]]

\* C22: write_clk_src with an index inside SRC_LIST hands one command frame to
\* the transport in all: the control command that sets the source of DST to
\* SRC_LIST[idx].  It returns when the transaction of that frame returns, Ok
\* exactly when the response is one control takes, and sends no status command
\* to read the source back.
C22_WriteClkSrcOneControl ==
    ValidWriteClkSrc =>
        /\ sent = <<SetSourceFrame(DST(impl), SRC_LIST(impl)[cur.idx + 1])>>
        /\ \A k \in 1..Len(sent) : sent[k].ctype # "Status"
        /\ pc = "wait" <=> acks = <<>>
        /\ pc = "idle" =>
            /\ Len(acks) = 1
            /\ res.ok <=> AckGood(1)

C22_Witness ==
    /\ ValidWriteClkSrc
    /\ cur.idx = 1
    /\ pc = "idle"
    /\ res.ok
    /\ Len(sent) = 1
    /\ Len(acks) = 1
    /\ dev.src = SRC_LIST(impl)[2]

\* The control call in progress has returned on a response frame.
ControlReturnedOnFrame ==
    /\ pc = "idle"
    /\ cur.ctype = "Control"
    /\ Len(acks) >= 1
    /\ LastAck.kind = "frame"

\* The response names another address or another opcode than the command.
Misaddressed(a) == a.addr # cur.addr \/ a.opcode # cur.op.opcode

\* C23: when the response to a control command names another address or opcode
\* than the command, control fails with RespParse(UnexpectedAddrOrOpcode), which
\* the caller gets as FileError::Io and which is no CommunicationFailure and no
\* error of the transport; when the response matches and its code is not one
\* control takes, control fails with RespParse(UnexpectedStatus).  In both cases
\* parse_operands is not reached: the operand holds the values it was called
\* with, whatever operands the response carries.
C23_RejectedBeforeParse ==
    ControlReturnedOnFrame =>
        /\ Misaddressed(LastAck) =>
            /\ ~res.ok
            /\ res.avc = RespParse("UnexpectedAddrOrOpcode")
            /\ res.avc.kind # "CommunicationFailure"
            /\ res.err = FileErrorIo
            /\ res.err \notin TransportErrors
            /\ res.op = cur.op
        /\ (~Misaddressed(LastAck) /\ ~TakenByControl(cur.op.opcode, LastAck)) =>
            /\ ~res.ok
            /\ res.avc = RespParse("UnexpectedStatus")
            /\ res.op = cur.op

C23_Witness ==
    /\ ControlReturnedOnFrame
    /\ cur.fn = "write_selector"
    /\ LastAck.addr # cur.addr
    /\ LastAck.wellformed
    /\ LastAck.operands # sent[Len(sent)].operands
    /\ res.avc = RespParse("UnexpectedAddrOrOpcode")
    /\ res.op = cur.op

\* The status call in progress has returned on a response frame for the address
\* and the opcode of its command.
StatusReturnedOnMatchingFrame ==
    /\ ReturnedOnMatchingFrame
    /\ cur.ctype = "Status"
    /\ Len(acks) = 1

\* C25: the quirk belongs to control alone.  A status call, also one with
\* InputPlugSignalFormat, OutputPlugSignalFormat or SignalSource as its opcode,
\* takes a response only when its code is ImplementedStable (0xc): on the
\* reserved code 0x0, as on Accepted and every other code, it fails with
\* RespParse(UnexpectedStatus) and the operand keeps the values it was built
\* with; an operation built on status returns Ok only on ImplementedStable.
C25_QuirkIsControlOnly ==
    StatusReturnedOnMatchingFrame =>
        /\ res.ok => LastAck.code = 12
        /\ LastAck.code # 12 =>
            /\ ~res.ok
            /\ res.avc = RespParse("UnexpectedStatus")
            /\ res.err = FileErrorIo
            /\ res.op = cur.op
        /\ (cur.fn = "status" /\ LastAck.code = 12) => (res.ok <=> LastAck.wellformed)

C25_Witness ==
    /\ StatusReturnedOnMatchingFrame
    /\ cur.fn = "read_clk_src"
    /\ cur.op.opcode \in QuirkOpcodes
    /\ LastAck.code = 0
    /\ LastAck.wellformed
    /\ ~res.ok
    /\ res.avc = RespParse("UnexpectedStatus")

FeatureReads == {"read_level", "read_lr_balance", "read_mute"}

\* The FeatureCtl variant the read operation builds its operand with.
RequestedVariant(fn) ==
    CASE fn = "read_level"      -> "Volume"
      [] fn = "read_lr_balance" -> "LrBalance"
      [] fn = "read_mute"       -> "Mute"

\* The device answered the query of a feature control with a response that
\* status takes by its address, opcode and code, carrying another control.
AnsweredWithOtherControl ==
    /\ StatusAnswered
    /\ cur.fn \in FeatureReads
    /\ acks[1].operands.ctl.variant # RequestedVariant(cur.fn)

Breaking == {"Shutdown", "Disconnected"}

\* C28: BebobRuntime::run has returned exactly when the last event it received
\* is a Shutdown or a Disconnected: after a BusReset, Elem, Timer or StreamLock
\* event, whatever the model returned while handling it, and after a receive
\* error, the main thread is still in the loop.
C28_RunReturnsOnShutdownOrDisconnected ==
    (main.pc = "returned") <=> (last.kind \in Breaking)

\* The loop goes on after the model failed to handle an element event.
C28_Witness ==
    /\ main.pc = "run"
    /\ last.kind = "Elem"
    /\ last.model = "dispatch_elem_event"
    /\ ~last.ok

\* C29: the StreamLock values the run loop has handled are, in order, the lock
\* states read by the first notifications: StreamLock events are handled in the
\* order in which the lock-state notifications occurred.
C29_StreamLockInNotifiedOrder ==
    /\ Len(lock_log) <= Len(lockers)
    /\ \A i \in 1..Len(lock_log) : lock_log[i] = lockers[i].is_locked

\* The run loop takes a 'metering' element event from the channel.
MeteringStep ==
    /\ main.pc = "run"
    /\ channel # <<>>
    /\ Head(channel) = Elem(TIMER_NAME)
    /\ channel' = Tail(channel)

\* What a 'metering' event does to self.timer: with a readable true and a
\* dispatcher that started it is Some, with a readable false it is None, and
\* with an unreadable value or a dispatcher that failed to start it is as before.
MeteringEffect ==
    IF ~last'.ok THEN timer' = timer /\ meter' = meter
    ELSE IF ~meter'.val THEN timer' = "None"
    ELSE IF meter'.started THEN timer' = "Some"
    ELSE timer' = timer

\* At any time: the timer read against the last readable 'metering' event, the
\* timer dispatchers alive, and what was done with a 'metering' event.
MeteringState ==
    /\ (meter.seen /\ meter.val /\ meter.started) => timer = "Some"
    /\ timer = "Some" => (meter.seen /\ meter.val)
    /\ ~meter.seen => timer = "None"
    /\ timer_threads = IF timer = "Some" THEN 1 ELSE 0
    /\ (last.kind = "Elem" /\ last.name = TIMER_NAME) => last.model = "none"

\* C30 (as amended): after any sequence of 'metering' element events the timer
\* exists if the last readable one carried true and its timer started, and only
\* if the last readable one carried true; a readable true whose timer starts
\* installs a timer, a readable false leaves `timer` None, an unreadable value or
\* a timer that fails to start leaves `timer` as it was, and no other event
\* changes it; at most one timer dispatcher is alive, the one in `timer`; a
\* 'metering' event is never forwarded to the model.
C30_TimerFollowsMetering ==
    /\ []MeteringState
    /\ [][IF MeteringStep THEN MeteringEffect ELSE timer' = timer]_vars

\* A timer was running, a later 'metering' event carried true and its timer
\* failed to start: the earlier timer is still there.
C30_Witness ==
    /\ timer = "Some"
    /\ meter.seen
    /\ meter.val
    /\ ~meter.started

\* C30 (as stated): the timer exists iff the last readable 'metering' event
\* carried true and starting the timer succeeded.
C30_TimerIffLastReadableTrueAndStarted ==
    (timer = "Some") <=> (meter.seen /\ meter.val /\ meter.started)

\* drop() is past its loop of stop(), and past its loop over try_iter().
PastStop == main.pc \in {"drain", "clear", "dropped", "gone"}

PastDrain == main.pc \in {"clear", "dropped", "gone"}

\* The thread of dispatcher d is inside tx.send and the channel has no room.
BlockedOnFull(d) == disp[d].thread = "sending" /\ Len(channel) = CHANNEL_SIZE

\* While a BebobRuntime is dropped: once the queue is being consumed every
\* dispatcher of `dispatchers` has been stopped, a dispatcher is destroyed only
\* after the queue was consumed, and while the dispatchers are destroyed none of
\* their threads is blocked sending into a full channel.
DropState ==
    /\ PastStop => \A d \in DispatcherNames : disp[d].loop = "stopped"
    /\ \A d \in DispatcherNames : disp[d].thread = "joined" => PastDrain
    /\ main.pc = "clear" => \A d \in DispatcherNames : ~BlockedOnFull(d)

\* drop() gets to the destruction of the dispatchers only from the loop over
\* try_iter(), and only when that found the channel empty.
DropStep ==
    /\ (PastStop' /\ ~PastStop) => (main.pc = "stop" /\ main'.pc = "drain")
    /\ (PastDrain' /\ ~PastDrain) => (main.pc = "drain" /\ channel = <<>>)

IsSmallestIndexHolding(list, j, v) ==
    /\ j \in 0..(Len(list) - 1)
    /\ list[j + 1] = v
    /\ \A k \in 0..(j - 1) : list[k + 1] # v

\* A read of the given name has returned Ok.
ReadReturnedOk(fn) == pc = "idle" /\ cur.fn = fn /\ res.ok

\* C34: read_clk_freq, read_clk_src and read_selector return the smallest index
\* whose table entry equals the value the device reported; an index that has a
\* smaller index with the same entry is never returned.
C34_SmallestMatchingIndex ==
    /\ ReadReturnedOk("read_clk_freq") =>
        IsSmallestIndexHolding(FREQ_LIST(impl), res.ret, res.op.body.stream_format.freq)
    /\ ReadReturnedOk("read_clk_src") =>
        IsSmallestIndexHolding(SRC_LIST(impl), res.ret, res.op.body.src)
    /\ ReadReturnedOk("read_selector") =>
        IsSmallestIndexHolding(INPUT_PLUG_ID_LIST(impl), res.ret, res.op.body.input_plug_id)

\* The device reported a source that SRC_LIST holds at indices 0 and 2, and
\* read_clk_src returned 0.
C34_Witness ==
    /\ ReadReturnedOk("read_clk_src")
    /\ impl = "ClkRepeat"
    /\ res.op.body.src = SRC_LIST(impl)[3]
    /\ SRC_LIST(impl)[1] = SRC_LIST(impl)[3]
    /\ res.ret = 0

\* The handlers that lock the unit around their writes.
LockingHandlers == {"V3ClkCtl::write", "CommonCtl::write"}

\* The calls of those handlers that write to the device.
BusWrites ==
    {"set_clk_rate", "set_clk_src", "update_clk_display"}
        \cup {SignalFormatControl(d) : d \in {"Output", "Input"}}
        \cup {StreamFormatControl(d) : d \in {"Output", "Input"}}

\* The handler called unit.lock() and got the lock, or got an error.
LockAcquired == \E k \in DOMAIN wire : wire[k].op = "lock" /\ wire[k].ok

LockRefused == \E k \in DOMAIN wire : wire[k].op = "lock" /\ ~wire[k].ok

\* C31: in V3ClkCtl::write and CommonCtl::write, once the handler has returned
\* it does not hold the lock of the unit, and if it had acquired the lock the
\* last thing it did was the unlock, whether the bus write succeeded or failed;
\* every bus write is made while the lock is held, and none is made when
\* unit.lock() failed.
C31_LockReleasedOnEveryPath ==
    /\ lock = "self" => (call.fn \in LockingHandlers /\ call.pc # "idle")
    /\ call.fn \in LockingHandlers =>
        /\ (call.pc = "idle" /\ LockAcquired) => wire[Len(wire)].op = "unlock"
        /\ \A k \in DOMAIN wire : wire[k].op \in BusWrites => wire[k].held
        /\ LockRefused => \A k \in DOMAIN wire : wire[k].op \notin BusWrites

\* CommonCtl::write has returned the error of a failed bus write, and the lock
\* it had acquired is free again.
C31_Witness ==
    /\ call.fn = "CommonCtl::write"
    /\ call.pc = "idle"
    /\ LockAcquired
    /\ call.ret = ErrOf(SignalFormatControl("Output"))
    /\ lock = "free"

\* The calls the handler made, in order, by name.
OpsOf == [k \in 1..Len(wire) |-> wire[k].op]

\* V3ClkCtl::write of the clock source has returned.
ClkSrcWritten ==
    /\ call.fn = "V3ClkCtl::write"
    /\ call.elem = SRC_NAME
    /\ call.pc = "idle"

\* The k-th call was made and returned an error.
FailedAt(k, op) == Len(wire) >= k /\ wire[k].op = op /\ ~wire[k].ok

\* C32: V3ClkCtl::write of the clock source. When set_clk_src succeeded and
\* update_clk_display failed, the next call is set_clk_src with the source that
\* get_clk_src had returned, then the unlock, and the display error is returned.
\* When set_clk_src failed, only the unlock follows and its error is returned.
\* When get_clk_src failed, nothing else is called: the unit is not locked and
\* nothing is written.
C32_ClkSrcWritePaths ==
    ClkSrcWritten =>
        /\ FailedAt(4, "update_clk_display") =>
            /\ ctls.has_lcd
            /\ OpsOf = <<"get_clk_src", "lock", "set_clk_src", "update_clk_display",
                         "set_clk_src", "unlock">>
            /\ wire[3].ok /\ wire[3].arg = call.val
            /\ wire[5].arg = wire[1].arg
            /\ call.ret = ErrOf("update_clk_display")
        /\ FailedAt(3, "set_clk_src") =>
            /\ OpsOf = <<"get_clk_src", "lock", "set_clk_src", "unlock">>
            /\ call.ret = ErrOf("set_clk_src")
        /\ FailedAt(1, "get_clk_src") =>
            /\ Len(wire) = 1
            /\ call.ret = ErrOf("get_clk_src")
        /\ \A k \in DOMAIN wire : wire[k].op = "update_clk_display" => k = 4

\* The display update failed after source 1 was set over source 0, and source 0
\* was written back.
C32_Witness ==
    /\ ClkSrcWritten
    /\ FailedAt(4, "update_clk_display")
    /\ wire[3].arg = 1
    /\ wire[5].arg = 0
    /\ wire[5].ok
    /\ hw.clk_src = 0

\* The transactions of write_freq for a direction, and those that change it.
TransactionsFor(d) == {SignalFormatControl(d), StreamFormatStatus(d), StreamFormatControl(d)}

ChangesFor(d) == {SignalFormatControl(d), StreamFormatControl(d)}

\* The handler made a transaction for direction d.
Attempted(d) == \E k \in DOMAIN wire : wire[k].op \in TransactionsFor(d)

\* write_freq returned an error while it was at direction d.
FailedIn(d) == call.dir = d /\ call.inner # Unset /\ ~call.inner.ok

\* C33: in CommonCtl::write_freq no transaction for the output direction comes
\* after one for the input direction, and a direction is attempted only if it
\* has a detected format entry; when the change of the output direction fails the
\* input direction is not attempted, and every change sent carries the rate
\* asked for (nothing is rolled back); with an index that is not below the
\* number of supported rates no transaction is made and the call fails; and when
\* write_freq returned Ok, every direction with an entry was changed.
C33_OutputThenInput ==
    call.fn = "CommonCtl::write" =>
        /\ \A j \in DOMAIN wire, k \in DOMAIN wire :
            (wire[j].op \in TransactionsFor("Input") /\ wire[k].op \in TransactionsFor("Output"))
                => k < j
        /\ \A d \in {"Output", "Input"} : Attempted(d) => Len(EntriesOf(d)) > 0
        /\ FailedIn("Output") => ~Attempted("Input")
        /\ \A k \in DOMAIN wire :
            wire[k].op \in ChangesFor("Output") \cup ChangesFor("Input") =>
                (wire[k].arg = call.freq /\ call.freq = ctls.supported_rates[call.val + 1])
        /\ call.val >= Len(ctls.supported_rates) =>
            /\ ~Attempted("Output") /\ ~Attempted("Input")
            /\ (call.pc = "idle" /\ call.elem = CLK_RATE_NAME) => ~call.ret.ok
        /\ (call.pc = "idle" /\ call.ret = OkBool(TRUE)) =>
            \A d \in {"Output", "Input"} :
                Len(EntriesOf(d)) > 0 =>
                    \E k \in DOMAIN wire : wire[k].op \in ChangesFor(d) /\ wire[k].ok

\* Both directions have entries, the change of the output direction failed and
\* the handler returned without a transaction for the input direction.
C33_Witness ==
    /\ call.fn = "CommonCtl::write"
    /\ call.pc = "idle"
    /\ Len(ctls.input_fmt_entries) > 0
    /\ FailedIn("Output")
    /\ \E k \in DOMAIN wire : wire[k].op \in ChangesFor("Output") /\ ~wire[k].ok
    /\ ~Attempted("Input")

\* C35: AudiophileModel::write returns Ok(true) whenever one of its controls
\* handled the element, and Ok(false) only when none of them did.
C35_HandledIsOkTrue ==
    (call.fn = "AudiophileModel::write" /\ call.pc = "idle" /\ call.ret.ok) =>
        (call.ret.handled <=> call.handled_by # 0)

\* C36: SpecificCtl::read of the capture source sets the element to the index in
\* SRCS of the source the device reported: 0 for Analog, 1 for Digital.
C36_CaptureSourceIndex ==
    (call.fn = "SpecificCtl::read" /\ call.elem = CAPTURE_SOURCE_NAME /\ call.ret.ok) =>
        elem_value = <<IF hw.input_source = "Analog" THEN 0 ELSE 1>>

====
